---- MODULE Spec2Model ----
(***************************************************************************)
(* Model of the bot dashboard (basilrari/botdashboard): the state poller   *)
(* (useBotState), the equity chart adapter (EquityChart, downsample), the  *)
(* health status transforms (getClobWsStatus, SystemHealth) and the trade  *)
(* event categorisation (TradeColumn).                                     *)
(*                                                                         *)
(* Each component has its own specification over its own variables; the    *)
(* variables of the other components stay unchanged in it.                 *)
(***************************************************************************)
EXTENDS Integers, Sequences, FiniteSets, TLC

VARIABLES
    \* ---- useBotState (src/src/hooks/use-bot-state.ts) ----
    pstatus,        \* "rendered" (effect not yet run), "mounted", "unmounted"
    state,          \* useState<BotState | null>: the held snapshot
    error,          \* useState<string | null>
    lastFetch,      \* useState<number>
    inflight,       \* ids of the fetches whose promise is still pending
    issued,         \* number of fetches issued so far (ids are 1..issued)
    completed,      \* history: the outcomes of the completed fetches, in completion order
    now,            \* Date.now(), in ms
    elapsed,        \* ms since the interval was armed or last fired
    \* ---- downsample (src/unnamed/part_005) ----
    dsData,         \* argument data: chart points in time order
    dsMaxPoints,    \* argument maxPoints
    dsOut,          \* the returned array
    dsApplied,      \* whether downsample has been applied to the arguments
    \* ---- EquityChart (src/unnamed/part_005) ----
    accounts,       \* the accounts prop: mode -> AccountData, for the modes of the snapshot
    chartRef,       \* chartRef.current: 0 for null, else the id of the chart instance
    chartsCreated,  \* number of chart instances created so far
    chartSeries,    \* mode -> number of line series the live chart holds for it
    seriesRefs,     \* the modes that have an entry in the seriesRefs map
    seriesData,     \* mode -> the points last handed to the series' setData
    initialRangeSet,\* initialRangeSet.current
    visibleRange,   \* the time scale's visible range: "default", "fit" or "user"
    rangeCalls,     \* fitContent calls made on the current chart instance
    sawHistory,     \* history: a data update on this instance carried a non-empty history
    lastOp,         \* history: the operation that ran last
    \* ---- SystemHealth (src/src/components/dashboard/system-health.tsx) ----
    healthState,    \* the state prop: the snapshot fields the health cards read
    healthView,     \* the rendered cards (rendered = FALSE before the first render)
    \* ---- TradeColumn (src/src/components/trades/trade-column.tsx) ----
    tcAcct,         \* the acct prop: label and trade_events
    tcView,         \* the four event lists of the render (rendered = FALSE before it)
    \* ---- derived lists: EventSection, DecisionLog, ApiHealthLog,
    \*      ResolutionTimeoutBanner, EquityChart's series data ----
    viewKind,       \* which component renders: the kind of the snapshot array
    viewSource,     \* the snapshot's array the component is given
    viewMissing,    \* the snapshot lacks the field (viewSource is then empty)
    viewOut,        \* the lists derived by the last render (rendered = FALSE before it)
    viewRenders,    \* renders of the same snapshot so far
    \* ---- TradeColumn's section state (src/src/components/trades/trade-column.tsx) ----
    colMounted,     \* whether Dashboard renders the column (the account is in the snapshot)
    colAcct,        \* the acct prop of the mounted column
    colDeferred,    \* the deferred prop of the mounted column
    expandedSection,\* useState<string | null>
    colOp,          \* history: the operation that ran last, and its section
    \* ---- Dashboard's render body (src/unnamed/part_000) ----
    dashState,      \* the snapshot fields the body reads: current_market, accounts,
                    \* deferred_resolutions
    dashView,       \* what the render derived: windowPct and the trade columns
    \* ---- sendCommand (src/src/app/page.tsx) ----
    cmdSent,        \* number of commands sent so far (ids are 1..cmdSent)
    cmdPending,     \* the POST /api/command requests awaiting their outcome
    cmdLast         \* history: the outcome of the command that settled last

pollerVars == <<pstatus, state, error, lastFetch, inflight, issued, completed, now, elapsed>>

downsampleVars == <<dsData, dsMaxPoints, dsOut, dsApplied>>

chartVars ==
    <<accounts, chartRef, chartsCreated, chartSeries, seriesRefs, seriesData,
      initialRangeSet, visibleRange, rangeCalls, sawHistory, lastOp>>

healthVars == <<healthState, healthView>>

tradeVars == <<tcAcct, tcView>>

viewVars == <<viewKind, viewSource, viewMissing, viewOut, viewRenders>>

columnVars == <<colMounted, colAcct, colDeferred, expandedSection, colOp>>

dashVars == <<dashState, dashView>>

commandVars == <<cmdSent, cmdPending, cmdLast>>

vars ==
    <<pollerVars, downsampleVars, chartVars, healthVars, tradeVars, viewVars, columnVars,
      dashVars, commandVars>>

\* what each component leaves alone
notPollerVars ==
    <<downsampleVars, chartVars, healthVars, tradeVars, viewVars, columnVars, dashVars, commandVars>>
notDownsampleVars ==
    <<pollerVars, chartVars, healthVars, tradeVars, viewVars, columnVars, dashVars, commandVars>>
notChartVars ==
    <<pollerVars, downsampleVars, healthVars, tradeVars, viewVars, columnVars, dashVars, commandVars>>
notHealthVars ==
    <<pollerVars, downsampleVars, chartVars, tradeVars, viewVars, columnVars, dashVars, commandVars>>
notTradeVars ==
    <<pollerVars, downsampleVars, chartVars, healthVars, viewVars, columnVars, dashVars, commandVars>>
notViewVars ==
    <<pollerVars, downsampleVars, chartVars, healthVars, tradeVars, columnVars, dashVars, commandVars>>
notColumnVars ==
    <<pollerVars, downsampleVars, chartVars, healthVars, tradeVars, viewVars, dashVars, commandVars>>
notDashVars ==
    <<pollerVars, downsampleVars, chartVars, healthVars, tradeVars, viewVars, columnVars, commandVars>>
notCommandVars ==
    <<pollerVars, downsampleVars, chartVars, healthVars, tradeVars, viewVars, columnVars, dashVars>>

(***************************************************************************)
(* Bounds                                                                  *)
(***************************************************************************)
MaxRequests == 3        \* fetches issued in one run
MaxClockSteps == 5      \* clock advances in one run
MaxLen == 5             \* length of the array handed to downsample
MaxTs == 2              \* distinct timestamps of the points
MaxHist == 3            \* length of an account's equity history
MaxCharts == 2          \* chart instances created in one run (mount, remount)
MaxEvents == 3          \* length of an account's trade_events
\* MAX_CHART_POINTS is 8000 in the source (src/unnamed/part_005:148); the model
\* scales it down so that the modelled histories exceed it
MAX_CHART_POINTS == 2
MaxSection == 4         \* length of the events array handed to an EventSection
MaxLog == 3             \* length of decision_log, api_health_log, notifications
MaxRenders == 2         \* renders of one snapshot
\* DecisionLog shows 20 rows (src/src/components/dashboard/decision-log.tsx:22)
\* and the banner 10 (src/src/components/dashboard/resolution-timeout-banner.tsx:19);
\* the model scales both down so that the modelled logs exceed them
DECISION_LOG_ROWS == 2
NOTIFICATION_ROWS == 2
MaxDeferred == 3        \* length of deferred_resolutions
MaxCommands == 1        \* commands sent in one run

(***************************************************************************)
(* Program constants                                                       *)
(***************************************************************************)
REFRESH_MS == 2000
SUSPICIOUS_SECS == 999
MAX_REASONABLE_SECS == 600
\* the literal of "secsSince > 60" in getClobWsStatus
STALE_AFTER_SECS == 60

\* the literal of sorted.slice(0, 3) and sorted.slice(3) in EventSection
EVENT_PREVIEW == 3

\* the literal of "mkt.seconds_elapsed / 300" in Dashboard: the market window's length
WINDOW_SECS == 300

\* granularity of the modelled clock: two steps per polling period
TimeStep == REFRESH_MS \div 2

\* JS null for string-valued cells; no message the code builds equals it
Null == "null"

\* useState<BotState | null>(null)
NullState == [isNull |-> TRUE]

(***************************************************************************)
(* useBotState                                                             *)
(***************************************************************************)
\* the payload the endpoint returns for request r (one snapshot per request)
Snapshot(r) == [isNull |-> FALSE, req |-> r]

\* HTTP statuses the endpoint may answer with
HttpStatuses == {200, 404, 500}

\* Response.ok
ResOk(status) == status >= 200 /\ status <= 299

\* new Error(`HTTP ${res.status}`)
HttpError(status) == [isError |-> TRUE, message |-> "HTTP " \o ToString(status)]

\* what fetch() itself may reject with: a TypeError, or a value that is not an Error
FetchRejections ==
    { [isError |-> TRUE, message |-> "Failed to fetch"],
      [isError |-> FALSE, message |-> "aborted"] }

\* what res.json() throws on a body that is not JSON
JsonSyntaxError == [isError |-> TRUE, message |-> "Unexpected token < in JSON"]

\* e instanceof Error ? e.message : "Connection failed"
ErrorMessage(e) == IF e.isError THEN e.message ELSE "Connection failed"

\* history record of one completed fetch
Outcome(r, kind, status, e) ==
    [req |-> r, kind |-> kind, status |-> status, thrown |-> e, issuedThen |-> issued]

\* the value "thrown" of a fetch that threw nothing
NoThrow == [isError |-> FALSE, message |-> ""]

\* faulty variant of Catch: the catch block also drops the held snapshot
CatchDropsSnapshot(e) ==
    /\ error' = ErrorMessage(e)
    /\ state' = NullState
    /\ UNCHANGED lastFetch

\* the catch block of fetchState
Catch(e) ==
    /\ error' = ErrorMessage(e)
    /\ UNCHANGED <<state, lastFetch>>

\* faulty variant of Succeed: setLastFetch is left out
SucceedKeepsLastFetch(r) ==
    /\ state' = Snapshot(r)
    /\ error' = Null
    /\ UNCHANGED lastFetch

\* the three setters after a parsed response
Succeed(r) ==
    /\ state' = Snapshot(r)
    /\ error' = Null
    /\ lastFetch' = now

\* fetchState() up to its first await: one more request in flight
IssueFetch ==
    /\ issued' = issued + 1
    /\ inflight' = inflight \cup {issued + 1}

\* useEffect body: fetchState(); setInterval(fetchState, REFRESH_MS)
Mount ==
    /\ pstatus = "rendered"
    /\ pstatus' = "mounted"
    /\ IssueFetch
    /\ elapsed' = 0
    /\ UNCHANGED <<state, error, lastFetch, completed, now, notPollerVars>>

\* faulty variant of IntervalTick: the interval stops issuing fetches once an error is held
IntervalTickStopsOnError ==
    /\ pstatus = "mounted"
    /\ elapsed >= REFRESH_MS
    /\ issued < MaxRequests
    /\ error = Null
    /\ IssueFetch
    /\ elapsed' = 0
    /\ UNCHANGED <<pstatus, state, error, lastFetch, completed, now, notPollerVars>>

\* faulty variant of IntervalTick: the interval is not cleared by the cleanup
IntervalTickAfterUnmount ==
    /\ pstatus \in {"mounted", "unmounted"}
    /\ elapsed >= REFRESH_MS
    /\ issued < MaxRequests
    /\ IssueFetch
    /\ elapsed' = 0
    /\ UNCHANGED <<pstatus, state, error, lastFetch, completed, now, notPollerVars>>

\* the interval callback
IntervalTick ==
    /\ pstatus = "mounted"
    /\ elapsed >= REFRESH_MS
    /\ issued < MaxRequests
    /\ IssueFetch
    /\ elapsed' = 0
    /\ UNCHANGED <<pstatus, state, error, lastFetch, completed, now, notPollerVars>>

\* time passes; a due interval callback runs before more time passes
Advance ==
    /\ now < (MaxClockSteps + 1) * TimeStep
    /\ pstatus = "mounted" => elapsed < REFRESH_MS
    /\ now' = now + TimeStep
    /\ elapsed' = IF pstatus = "mounted" THEN elapsed + TimeStep ELSE elapsed
    /\ UNCHANGED <<pstatus, state, error, lastFetch, inflight, issued, completed, notPollerVars>>

\* fetch() rejects (network exception)
FetchRejects(r, e) ==
    /\ r \in inflight
    /\ inflight' = inflight \ {r}
    /\ Catch(e)
    /\ completed' = Append(completed, Outcome(r, "network", 0, e))
    /\ UNCHANGED <<pstatus, issued, now, elapsed, notPollerVars>>

\* fetch() resolves with a response: status check, then res.json()
FetchResolves(r, status, bodyIsJson) ==
    /\ r \in inflight
    /\ inflight' = inflight \ {r}
    /\ IF ~ResOk(status)
          THEN /\ Catch(HttpError(status))
               /\ completed' = Append(completed, Outcome(r, "http", status, HttpError(status)))
       ELSE IF ~bodyIsJson
          THEN /\ Catch(JsonSyntaxError)
               /\ completed' = Append(completed, Outcome(r, "parse", status, JsonSyntaxError))
       ELSE /\ Succeed(r)
            /\ completed' = Append(completed, Outcome(r, "ok", status, NoThrow))
    /\ UNCHANGED <<pstatus, issued, now, elapsed, notPollerVars>>

\* effect cleanup: clearInterval(interval)
Unmount ==
    /\ pstatus = "mounted"
    /\ pstatus' = "unmounted"
    /\ UNCHANGED <<state, error, lastFetch, inflight, issued, completed, now, elapsed, notPollerVars>>

PollerInit ==
    /\ pstatus = "rendered"
    /\ state = NullState
    /\ error = Null
    /\ lastFetch = 0
    /\ inflight = {}
    /\ issued = 0
    /\ completed = <<>>
    /\ now = TimeStep
    /\ elapsed = 0

PollerNext ==
    \/ Mount
    \/ IntervalTick
    \/ Advance
    \/ Unmount
    \/ \E r \in 1..MaxRequests, e \in FetchRejections : FetchRejects(r, e)
    \/ \E r \in 1..MaxRequests, status \in HttpStatuses, bodyIsJson \in BOOLEAN :
          FetchResolves(r, status, bodyIsJson)

\* JS truthiness of the error cell: null and "" are falsy
Truthy(msg) == msg # Null /\ msg # ""

\* faulty variant of Dashboard: an error also brings the loading screen back
DashboardLoadingOnError(st, err) ==
    IF st.isNull \/ Truthy(err)
    THEN [screen |-> "loading",
          text |-> IF Truthy(err) THEN "Connection error: " \o err ELSE "Connecting to bot..."]
    ELSE [screen |-> "dashboard", dot |-> IF Truthy(err) THEN "red" ELSE "green"]

\* what Dashboard renders for the cells of useBotState: LoadingState while
\* !state, else the dashboard whose header dot is red when hasError = !!error
Dashboard(st, err) ==
    IF st.isNull
    THEN [screen |-> "loading",
          text |-> IF Truthy(err) THEN "Connection error: " \o err ELSE "Connecting to bot..."]
    ELSE [screen |-> "dashboard", dot |-> IF Truthy(err) THEN "red" ELSE "green"]

(***************************************************************************)
(* downsample                                                              *)
(***************************************************************************)
\* equity values of the modelled points
EquityValues == {100, 105}

\* chart points { time, value }
Points == [time : 1..MaxTs, value : EquityValues]

\* sequences over S of length at most n
SeqsUpTo(S, n) == UNION { [1..k -> S] : k \in 0..n }

\* the code sorts by time before it downsamples
TimeSorted(data) == \A i \in 1..(Len(data) - 1) : data[i].time <= data[i + 1].time

\* Math.round(num / den) for num >= 0, den > 0: halves round up.  Exact
\* arithmetic; the double product i * step of the code agrees with it for every
\* array of fewer than 35 points.
RoundDiv(num, den) == (2 * num + den) \div (2 * den)

\* idx of loop iteration i (0-based), with step = (data.length - 1) / (maxPoints - 1)
SourceIndex(i, len, maxPoints) ==
    IF i = maxPoints - 1 THEN len - 1 ELSE RoundDiv(i * (len - 1), maxPoints - 1)

\* faulty variant of downsample: the loop runs while i <= maxPoints
downsampleOneMore(data, maxPoints) ==
    IF Len(data) <= maxPoints THEN data
    ELSE [k \in 1..(maxPoints + 1) |->
             data[IF k - 1 >= maxPoints - 1 THEN Len(data)
                  ELSE RoundDiv((k - 1) * (Len(data) - 1), maxPoints - 1) + 1]]

\* faulty variant of downsample: the loop index is taken one ahead, Math.round((i + 1) * step)
downsampleShifted(data, maxPoints) ==
    IF Len(data) <= maxPoints THEN data
    ELSE [k \in 1..maxPoints |->
             data[IF k - 1 >= maxPoints - 2 THEN Len(data)
                  ELSE RoundDiv(k * (Len(data) - 1), maxPoints - 1) + 1]]

\* downsample<T>(data, maxPoints)
downsample(data, maxPoints) ==
    IF Len(data) <= maxPoints THEN data
    ELSE [k \in 1..maxPoints |-> data[SourceIndex(k - 1, Len(data), maxPoints) + 1]]

DownsampleIdle ==
    /\ dsData = <<>>
    /\ dsMaxPoints = 0
    /\ dsOut = <<>>
    /\ dsApplied = FALSE

DownsampleInit ==
    /\ dsData \in { d \in SeqsUpTo(Points, MaxLen) : TimeSorted(d) }
    /\ dsMaxPoints \in 0..(MaxLen + 1)
    /\ dsOut = <<>>
    /\ dsApplied = FALSE

\* data = downsample(data, maxPoints)
ApplyDownsample ==
    /\ ~dsApplied
    /\ dsOut' = downsample(dsData, dsMaxPoints)
    /\ dsApplied' = TRUE
    /\ UNCHANGED <<dsData, dsMaxPoints, notDownsampleVars>>

DownsampleNext == ApplyDownsample

(***************************************************************************)
(* EquityChart                                                             *)
(***************************************************************************)
\* Object.keys(MODE_CONFIG), in insertion order
ModeOrder == <<"binance_only", "chainlink_only", "dual">>

Modes == { ModeOrder[i] : i \in 1..Len(ModeOrder) }

\* AccountData.label as the backend names the modes
LabelOf(mode) ==
    IF mode = "binance_only" THEN "Binance Only"
    ELSE IF mode = "chainlink_only" THEN "Chainlink Only"
    ELSE "Dual (Both)"

\* the equity history of an account after n recordings; the backend's order is
\* not the time order (adjacent recordings come swapped)
HistoryOf(n) ==
    [i \in 1..n |-> [ts |-> IF i % 2 = 1 THEN i + 1 ELSE i - 1, equity |-> 100 + i]]

\* an empty history and the longest ones
Histories == { HistoryOf(n) : n \in {0} \cup ((MaxHist - 1)..MaxHist) }

\* the values of state.accounts: any subset of the modes, each with a history
AccountMaps ==
    UNION { [present -> Histories] : present \in SUBSET Modes }

AccountOf(acc, mode) == [label |-> LabelOf(mode), equity_history |-> acc[mode]]

\* history.map((pt) => ({ time: pt.ts, value: pt.equity }))
ToPoints(history) ==
    [i \in 1..Len(history) |-> [time |-> history[i].ts, value |-> history[i].equity]]

\* faulty variant of SortByTime: the mapped points are left in history order
SortByTimeOmitted(s) == s

\* insert p into the time-sorted sequence s behind the points that are not later
RECURSIVE InsertByTime(_, _)
InsertByTime(p, s) ==
    IF s = <<>> THEN <<p>>
    ELSE IF Head(s).time <= p.time THEN <<Head(s)>> \o InsertByTime(p, Tail(s))
    ELSE <<p>> \o s

\* .sort((a, b) => a.time - b.time): ascending, stable
RECURSIVE SortByTime(_)
SortByTime(s) ==
    IF s = <<>> THEN <<>>
    ELSE InsertByTime(s[Len(s)], SortByTime(SubSeq(s, 1, Len(s) - 1)))

\* the array handed to series.setData for a history
ChartData(history) == downsample(SortByTime(ToPoints(history)), MAX_CHART_POINTS)

\* the loop of the data effect sets data for mode: !acct || !series -> continue;
\* history.length === 0 -> continue
Plots(acc, refs, mode) ==
    /\ mode \in DOMAIN acc
    /\ mode \in refs
    /\ Len(AccountOf(acc, mode).equity_history) # 0

\* hasData after the loop
HasData(acc, refs) == \E mode \in Modes : Plots(acc, refs, mode)

\* some account of the prop carries a non-empty equity history
CarriesHistory(acc) == \E mode \in DOMAIN acc : Len(acc[mode]) # 0

\* the data effect, run against chart ref with series map refs, the data the
\* series hold, the flag, the visible range and the count of fitContent calls;
\* timeScale().fitContent() fits the range or throws (the catch ignores it)
DataEffect(acc, ref, refs, data, flagSet, range, calls) ==
    IF ref = 0
    THEN /\ seriesData' = data
         /\ initialRangeSet' = flagSet
         /\ visibleRange' = range
         /\ rangeCalls' = calls
    ELSE /\ seriesData' =
              [mode \in Modes |->
                 IF Plots(acc, refs, mode)
                 THEN ChartData(AccountOf(acc, mode).equity_history)
                 ELSE data[mode]]
         /\ IF HasData(acc, refs) /\ ~flagSet
            THEN /\ initialRangeSet' = TRUE
                 /\ rangeCalls' = calls + 1
                 /\ visibleRange' \in {"fit", range}
            ELSE /\ initialRangeSet' = flagSet
                 /\ rangeCalls' = calls
                 /\ visibleRange' = range

\* mount: the creation effect (createChart, one addSeries per account of the
\* prop), then the data effect with the same prop
ChartMount(acc) ==
    /\ chartRef = 0
    /\ chartsCreated < MaxCharts
    /\ accounts' = acc
    /\ chartsCreated' = chartsCreated + 1
    /\ chartRef' = chartsCreated + 1
    /\ chartSeries' = [mode \in Modes |-> IF mode \in DOMAIN acc THEN 1 ELSE 0]
    /\ seriesRefs' = Modes \cap DOMAIN acc
    /\ DataEffect(acc, chartsCreated + 1, Modes \cap DOMAIN acc,
                  [mode \in Modes |-> <<>>], FALSE, "default", 0)
    /\ sawHistory' = CarriesHistory(acc)
    /\ lastOp' = "mount"
    /\ UNCHANGED notChartVars

\* faulty variant of ChartUpdate: the chart is created anew for every accounts prop
ChartUpdateRecreates(acc) ==
    /\ chartRef # 0
    /\ chartsCreated < MaxCharts
    /\ accounts' = acc
    /\ chartsCreated' = chartsCreated + 1
    /\ chartRef' = chartsCreated + 1
    /\ chartSeries' = [mode \in Modes |-> IF mode \in DOMAIN acc THEN 1 ELSE 0]
    /\ seriesRefs' = Modes \cap DOMAIN acc
    /\ DataEffect(acc, chartsCreated + 1, Modes \cap DOMAIN acc,
                  [mode \in Modes |-> <<>>], FALSE, "default", 0)
    /\ sawHistory' = CarriesHistory(acc)
    /\ lastOp' = "update"
    /\ UNCHANGED notChartVars

\* a poll delivers a new accounts prop: the data effect runs
ChartUpdate(acc) ==
    /\ chartsCreated > 0
    /\ accounts' = acc
    /\ DataEffect(acc, chartRef, seriesRefs, seriesData, initialRangeSet,
                  visibleRange, rangeCalls)
    /\ sawHistory' = (sawHistory \/ (chartRef # 0 /\ CarriesHistory(acc)))
    /\ lastOp' = "update"
    /\ UNCHANGED <<chartRef, chartsCreated, chartSeries, seriesRefs, notChartVars>>

\* the user pans or zooms the live chart
UserPanZoom ==
    /\ chartRef # 0
    /\ visibleRange' = "user"
    /\ lastOp' = "pan"
    /\ UNCHANGED <<accounts, chartRef, chartsCreated, chartSeries, seriesRefs,
                   seriesData, initialRangeSet, rangeCalls, sawHistory, notChartVars>>

\* cleanup of the creation effect: ro.disconnect(); chart.remove(); chartRef.current = null
ChartUnmount ==
    /\ chartRef # 0
    /\ chartRef' = 0
    /\ chartSeries' = [mode \in Modes |-> 0]
    /\ lastOp' = "unmount"
    /\ UNCHANGED <<accounts, chartsCreated, seriesRefs, seriesData, initialRangeSet,
                   visibleRange, rangeCalls, sawHistory, notChartVars>>

ChartIdle ==
    /\ accounts = <<>>
    /\ chartRef = 0
    /\ chartsCreated = 0
    /\ chartSeries = [mode \in Modes |-> 0]
    /\ seriesRefs = {}
    /\ seriesData = [mode \in Modes |-> <<>>]
    /\ initialRangeSet = FALSE
    /\ visibleRange = "default"
    /\ rangeCalls = 0
    /\ sawHistory = FALSE
    /\ lastOp = "none"

ChartInit == ChartIdle

ChartNext ==
    \/ \E acc \in AccountMaps : ChartMount(acc)
    \/ \E acc \in AccountMaps : ChartUpdate(acc)
    \/ UserPanZoom
    \/ ChartUnmount

(***************************************************************************)
(* JS numbers as the snapshot carries them: null, NaN, Infinity or a finite *)
(* number, kept in tenths so that rounding is not the identity             *)
(***************************************************************************)
Num(t) == [kind |-> "num", tenths |-> t]
JsNull == [kind |-> "null", tenths |-> 0]
JsNaN == [kind |-> "nan", tenths |-> 0]
JsInfinity == [kind |-> "inf", tenths |-> 0]

\* typeof v === "number"
IsNumber(v) == v.kind \in {"num", "nan", "inf"}

\* Number.isFinite(v)
IsFinite(v) == v.kind = "num"

\* v > n and v >= n for an integer n; a comparison with NaN is false
Gt(v, n) == (v.kind = "inf") \/ (v.kind = "num" /\ v.tenths > 10 * n)
Gte(v, n) == (v.kind = "inf") \/ (v.kind = "num" /\ v.tenths >= 10 * n)

\* v ?? 0
OrZero(v) == IF v.kind = "null" THEN Num(0) ELSE v

\* Math.round of a finite number in tenths: halves round towards +Infinity
MathRound(t) == (t + 5) \div 10

Abs(t) == IF t < 0 THEN -t ELSE t

RECURSIVE Zeros(_)
Zeros(n) == IF n <= 0 THEN "" ELSE "0" \o Zeros(n - 1)

\* Number.prototype.toFixed of a finite number in tenths: halves round away from zero
ToFixed(t, digits) ==
    IF digits = 0
    THEN (IF t < 0 /\ (Abs(t) + 5) \div 10 > 0 THEN "-" ELSE "")
            \o ToString((Abs(t) + 5) \div 10)
    ELSE (IF t < 0 THEN "-" ELSE "")
            \o ToString(Abs(t) \div 10) \o "." \o ToString(Abs(t) % 10) \o Zeros(digits - 1)

\* the dash the code prints for a missing value (U+2014, written in ASCII here)
EmDash == "--"

\* safeToFixed(value, digits)
safeToFixed(value, digits) ==
    IF value.kind = "null" \/ ~IsNumber(value) \/ value.kind = "nan" THEN EmDash
    ELSE IF value.kind = "inf" THEN "Infinity"
    ELSE ToFixed(value.tenths, digits)

(***************************************************************************)
(* getClobWsStatus and the health cards of SystemHealth                    *)
(***************************************************************************)
\* formatSecsAgo(secs)
formatSecsAgo(secs) ==
    IF ~IsNumber(secs) \/ ~IsFinite(secs) \/ Gte(secs, MAX_REASONABLE_SECS)
          \/ Gte(secs, SUSPICIOUS_SECS)
    THEN "No recent update"
    ELSE ToString(MathRound(secs.tenths)) \o "s ago"

\* faulty variant of getClobWsStatus: the detail is the literal age (the earlier version
\* of the function)
getClobWsStatusLiteral(st) ==
    LET secsSince == OrZero(st.clob_ws_seconds_since_update)
        detail == safeToFixed(secsSince, 0) \o "s ago"
    IN  IF ~st.clob_ws_connected
        THEN [ok |-> FALSE, warning |-> FALSE, status |-> "Disconnected", detail |-> "Not connected"]
        ELSE IF st.current_market.isNull
        THEN [ok |-> TRUE, warning |-> TRUE, status |-> "Idle", detail |-> "No active market"]
        ELSE IF Gt(secsSince, STALE_AFTER_SECS)
        THEN [ok |-> FALSE, warning |-> FALSE, status |-> "Stale", detail |-> detail]
        ELSE [ok |-> TRUE, warning |-> FALSE, status |-> "Connected", detail |-> detail]

\* faulty variant of getClobWsStatus: the age is examined before the market
getClobWsStatusAgeFirst(st) ==
    LET hasMarket == ~st.current_market.isNull
        connected == st.clob_ws_connected
        secsSince == OrZero(st.clob_ws_seconds_since_update)
        detail == formatSecsAgo(secsSince)
    IN  IF ~connected
        THEN [ok |-> FALSE, warning |-> FALSE, status |-> "Disconnected", detail |-> "Not connected"]
        ELSE IF Gt(secsSince, STALE_AFTER_SECS) \/ Gte(secsSince, SUSPICIOUS_SECS)
                  \/ ~IsFinite(secsSince)
        THEN [ok |-> FALSE, warning |-> FALSE, status |-> "Stale", detail |-> detail]
        ELSE IF ~hasMarket
        THEN [ok |-> TRUE, warning |-> TRUE, status |-> "Idle", detail |-> "No active market"]
        ELSE [ok |-> TRUE, warning |-> FALSE, status |-> "Connected", detail |-> detail]

\* getClobWsStatus(state)
getClobWsStatus(st) ==
    LET hasMarket == ~st.current_market.isNull
        connected == st.clob_ws_connected
        secsSince == OrZero(st.clob_ws_seconds_since_update)
        detail == formatSecsAgo(secsSince)
    IN  IF ~connected
        THEN [ok |-> FALSE, warning |-> FALSE, status |-> "Disconnected", detail |-> "Not connected"]
        ELSE IF ~hasMarket
        THEN [ok |-> TRUE, warning |-> TRUE, status |-> "Idle", detail |-> "No active market"]
        ELSE IF Gt(secsSince, STALE_AFTER_SECS) \/ Gte(secsSince, SUSPICIOUS_SECS)
                  \/ ~IsFinite(secsSince)
        THEN [ok |-> FALSE, warning |-> FALSE, status |-> "Stale", detail |-> detail]
        ELSE [ok |-> TRUE, warning |-> FALSE, status |-> "Connected", detail |-> detail]

\* faulty variant of HealthCard: ok is examined before warning
HealthCardOkFirst(card, warning) ==
    [dotColor |-> IF card.ok THEN "green" ELSE IF warning THEN "yellow" ELSE "red",
     textColor |-> IF card.ok THEN "text-green-400"
                   ELSE IF warning THEN "text-yellow-400" ELSE "text-red-400",
     status |-> card.status,
     detail |-> card.detail]

\* HealthCard({ label, ok, status, detail, warning }): the dot's and the status
\* text's colour classes, with the texts shown; card carries ok, status and detail
HealthCard(card, warning) ==
    [dotColor |-> IF warning THEN "yellow" ELSE IF card.ok THEN "green" ELSE "red",
     textColor |-> IF warning THEN "text-yellow-400"
                   ELSE IF card.ok THEN "text-green-400" ELSE "text-red-400",
     status |-> card.status,
     detail |-> card.detail]

\* faulty variant of RtdsCard: rtds_stale is examined before rtds_connected
RtdsCardStaleFirst(st) ==
    [ok |-> st.rtds_connected /\ ~st.rtds_stale,
     status |-> IF st.rtds_stale THEN "STALE"
                ELSE IF st.rtds_connected THEN "Live"
                ELSE "Disconnected",
     detail |-> IF st.rtds_seconds_since_update.kind # "null"
                THEN safeToFixed(st.rtds_seconds_since_update, 0) \o "s ago"
                ELSE EmDash]

\* the props of the "RTDS WebSocket" HealthCard
RtdsCard(st) ==
    [ok |-> st.rtds_connected /\ ~st.rtds_stale,
     status |-> IF st.rtds_connected /\ ~st.rtds_stale THEN "Live"
                ELSE IF st.rtds_connected THEN "STALE"
                ELSE "Disconnected",
     detail |-> IF st.rtds_seconds_since_update.kind # "null"
                THEN safeToFixed(st.rtds_seconds_since_update, 0) \o "s ago"
                ELSE EmDash]

\* the props of the "CLOB WebSocket" HealthCard
ClobCard(st) == getClobWsStatus(st)

\* seconds-since-update values of a snapshot: null, NaN, Infinity and finite
\* values around the thresholds of the code
SecsTenths ==
    { -10, 0, 124,
      10 * STALE_AFTER_SECS - 4, 10 * STALE_AFTER_SECS, 10 * STALE_AFTER_SECS + 1,
      10 * MAX_REASONABLE_SECS - 6, 10 * MAX_REASONABLE_SECS - 4, 10 * MAX_REASONABLE_SECS,
      10 * SUSPICIOUS_SECS - 1, 10 * SUSPICIOUS_SECS, 10 * SUSPICIOUS_SECS + 10 }

SecsValues == {JsNull, JsNaN, JsInfinity} \cup { Num(t) : t \in SecsTenths }

\* state.current_market: null or a MarketInfo
Markets == { [isNull |-> TRUE], [isNull |-> FALSE, slug |-> "btc-updown-5m"] }

HealthStates ==
    [clob_ws_connected : BOOLEAN,
     current_market : Markets,
     clob_ws_seconds_since_update : SecsValues,
     rtds_connected : BOOLEAN,
     rtds_stale : BOOLEAN,
     rtds_seconds_since_update : SecsValues]

NotRendered == [rendered |-> FALSE]

HealthIdle ==
    /\ healthState =
          [clob_ws_connected |-> FALSE, current_market |-> [isNull |-> TRUE],
           clob_ws_seconds_since_update |-> JsNull, rtds_connected |-> FALSE,
           rtds_stale |-> FALSE, rtds_seconds_since_update |-> JsNull]
    /\ healthView = NotRendered

HealthInit ==
    /\ healthState \in HealthStates
    /\ healthView = NotRendered

\* SystemHealth renders its cards from the state prop
RenderHealth ==
    /\ ~healthView.rendered
    /\ healthView' = [rendered |-> TRUE, clob |-> ClobCard(healthState),
                      rtds |-> RtdsCard(healthState),
                      clobCard |-> HealthCard(ClobCard(healthState),
                                              ClobCard(healthState).warning),
                      rtdsCard |-> HealthCard(RtdsCard(healthState), FALSE)]
    /\ UNCHANGED <<healthState, notHealthVars>>

HealthNext == RenderHealth

(***************************************************************************)
(* TradeColumn                                                             *)
(***************************************************************************)
\* an optional string field that is absent from the event
Undefined == "undefined"

\* reject_reason values: absent, or a text given as its words
RejectReasons ==
    { [present |-> FALSE, words |-> <<>>],
      [present |-> TRUE, words |-> <<"chainlink", "disagrees">>],
      [present |-> TRUE, words |-> <<"move", "below", "threshold">>] }

NoReason == [present |-> FALSE, words |-> <<>>]

\* the trade events of the modelled snapshots: resolutions with any result,
\* entries (also with a stray result field), near misses with any reason, and
\* an event of another type
TradeEvents ==
    [type : {"RESOLUTION"}, result : {"WIN", "LOSS", "VOID", Undefined}, reject_reason : {NoReason}]
    \cup [type : {"ENTRY"}, result : {Undefined, "WIN", "LOSS"}, reject_reason : {NoReason}]
    \cup [type : {"NEAR_MISS"}, result : {Undefined}, reject_reason : RejectReasons]
    \cup [type : {"SKIP"}, result : {Undefined, "WIN"}, reject_reason : {NoReason}]

\* e.reject_reason?.includes(word): undefined (falsy) when the field is absent
ReasonIncludes(e, word) ==
    e.reject_reason.present /\ \E i \in 1..Len(e.reject_reason.words) : e.reject_reason.words[i] = word

IsWin(e) == e.type = "RESOLUTION" /\ e.result = "WIN"
IsLoss(e) == e.type = "RESOLUTION" /\ e.result = "LOSS"
IsEntry(e) == e.type = "ENTRY"
IsNearMiss(e) == e.type = "NEAR_MISS"

\* faulty variant of TradeColumnLists: the feed disagreements are hidden in every column
TradeColumnListsHidesEverywhere(acct) ==
    LET events == acct.trade_events
        Shown(e) == ~ReasonIncludes(e, "disagrees")
    IN  [rendered |-> TRUE,
         wins |-> SelectSeq(events, IsWin),
         losses |-> SelectSeq(events, IsLoss),
         entries |-> SelectSeq(events, IsEntry),
         nearMisses |-> SelectSeq(SelectSeq(events, IsNearMiss), Shown)]

\* faulty variant of TradeColumnLists: wins and losses are told by the result alone
TradeColumnListsByResult(acct) ==
    LET events == acct.trade_events
        ResultWin(e) == e.result = "WIN"
        ResultLoss(e) == e.result = "LOSS"
        Shown(e) == ~(acct.label = "Dual (Both)" /\ ReasonIncludes(e, "disagrees"))
    IN  [rendered |-> TRUE,
         wins |-> SelectSeq(events, ResultWin),
         losses |-> SelectSeq(events, ResultLoss),
         entries |-> SelectSeq(events, IsEntry),
         nearMisses |-> SelectSeq(SelectSeq(events, IsNearMiss), Shown)]

\* the four lists TradeColumn derives from acct.trade_events
TradeColumnLists(acct) ==
    LET events == acct.trade_events
        Shown(e) == ~(acct.label = "Dual (Both)" /\ ReasonIncludes(e, "disagrees"))
    IN  [rendered |-> TRUE,
         wins |-> SelectSeq(events, IsWin),
         losses |-> SelectSeq(events, IsLoss),
         entries |-> SelectSeq(events, IsEntry),
         nearMisses |-> SelectSeq(SelectSeq(events, IsNearMiss), Shown)]

\* the acct props of the modelled columns
TradeAccounts ==
    [label : { LabelOf(mode) : mode \in Modes }, trade_events : SeqsUpTo(TradeEvents, MaxEvents)]

TradesIdle ==
    /\ tcAcct = [label |-> LabelOf("dual"), trade_events |-> <<>>]
    /\ tcView = NotRendered

TradesInit ==
    /\ tcAcct \in TradeAccounts
    /\ tcView = NotRendered

\* TradeColumn renders
RenderTradeColumn ==
    /\ ~tcView.rendered
    /\ tcView' = TradeColumnLists(tcAcct)
    /\ UNCHANGED <<tcAcct, notTradeVars>>

TradesNext == RenderTradeColumn

(***************************************************************************)
(* Derived lists.  JS arrays are objects: the snapshot's array lives on a   *)
(* heap (a sequence of arrays, a reference being an index), slice, spread   *)
(* and map allocate a new array, reverse and sort change the array they are *)
(* called on.                                                              *)
(***************************************************************************)
Min(a, b) == IF a <= b THEN a ELSE b

Max(a, b) == IF a >= b THEN a ELSE b

\* the elements Array.prototype.slice(start, end) selects
JsSlice(arr, start, end) ==
    LET n == Len(arr)
        from == IF start < 0 THEN Max(n + start, 0) ELSE Min(start, n)
        to == IF end < 0 THEN Max(n + end, 0) ELSE Min(end, n)
    IN  IF to <= from THEN <<>> ELSE SubSeq(arr, from + 1, to)

\* the elements in the order Array.prototype.reverse leaves them
Reversed(arr) == [i \in 1..Len(arr) |-> arr[Len(arr) + 1 - i]]

\* the reference an absent field evaluates to
UndefinedRef == 0

\* a new array on the heap
Allocate(heap, arr) == [heap |-> Append(heap, arr), ref |-> Len(heap) + 1]

\* a.slice(start, end)
ArraySlice(heap, ref, start, end) == Allocate(heap, JsSlice(heap[ref], start, end))

\* [...a]
ArraySpread(heap, ref) == Allocate(heap, heap[ref])

\* a.reverse(): reverses a itself and returns it
ArrayReverse(heap, ref) ==
    [heap |-> [heap EXCEPT ![ref] = Reversed(heap[ref])], ref |-> ref]

\* time strings, as the sequences of their characters' collation ranks
TimeStrings == { <<>>, <<1>>, <<1, 2>>, <<2>> }

\* the time field of an event: a string, or missing
EventTimes ==
    { [present |-> FALSE, chars |-> <<>>] } \cup { [present |-> TRUE, chars |-> c] : c \in TimeStrings }

\* the events handed to an EventSection; id tells events of equal time apart
SectionEvents == [time : EventTimes, id : 1..2]

\* a.localeCompare(b) for strings of one script: the first differing character
\* decides, a proper prefix sorts first
RECURSIVE LocaleCompare(_, _)
LocaleCompare(a, b) ==
    IF a = <<>> /\ b = <<>> THEN 0
    ELSE IF a = <<>> THEN -1
    ELSE IF b = <<>> THEN 1
    ELSE IF Head(a) < Head(b) THEN -1
    ELSE IF Head(a) > Head(b) THEN 1
    ELSE LocaleCompare(Tail(a), Tail(b))

\* e.time || ""
TimeOrEmpty(e) == IF e.time.present THEN e.time.chars ELSE <<>>

\* the comparator (a, b) => (b.time || "").localeCompare(a.time || "")
CompareNewestFirst(a, b) == LocaleCompare(TimeOrEmpty(b), TimeOrEmpty(a))

\* insert e into the sorted sequence s behind the events the comparator does not
\* place after it
RECURSIVE InsertNewestFirst(_, _)
InsertNewestFirst(e, s) ==
    IF s = <<>> THEN <<e>>
    ELSE IF CompareNewestFirst(Head(s), e) <= 0
         THEN <<Head(s)>> \o InsertNewestFirst(e, Tail(s))
    ELSE <<e>> \o s

\* insert e into the sequence s, sorted oldest first, behind the events that
\* are not newer
RECURSIVE InsertOldestFirst(_, _)
InsertOldestFirst(e, s) ==
    IF s = <<>> THEN <<e>>
    ELSE IF CompareNewestFirst(Head(s), e) >= 0
         THEN <<Head(s)>> \o InsertOldestFirst(e, Tail(s))
    ELSE <<e>> \o s

\* faulty variant of SortNewestFirst: the comparator is a.time.localeCompare(b.time)
RECURSIVE SortOldestFirst(_)
SortOldestFirst(s) ==
    IF s = <<>> THEN <<>>
    ELSE InsertOldestFirst(s[Len(s)], SortOldestFirst(SubSeq(s, 1, Len(s) - 1)))

\* the order Array.prototype.sort (stable) gives with CompareNewestFirst
RECURSIVE SortNewestFirst(_)
SortNewestFirst(s) ==
    IF s = <<>> THEN <<>>
    ELSE InsertNewestFirst(s[Len(s)], SortNewestFirst(SubSeq(s, 1, Len(s) - 1)))

\* a.sort(CompareNewestFirst): sorts a itself and returns it
ArraySortNewestFirst(heap, ref) ==
    [heap |-> [heap EXCEPT ![ref] = SortNewestFirst(heap[ref])], ref |-> ref]

\* a.sort((a, b) => a.time - b.time): sorts a itself and returns it
ArraySortByTime(heap, ref) ==
    [heap |-> [heap EXCEPT ![ref] = SortByTime(heap[ref])], ref |-> ref]

\* downsample(a, maxPoints): a itself when short enough, else a new array
ArrayDownsample(heap, ref, maxPoints) ==
    IF Len(heap[ref]) <= maxPoints THEN [heap |-> heap, ref |-> ref]
    ELSE Allocate(heap, downsample(heap[ref], maxPoints))

\* what a component that returns null shows
NothingShown == [rendered |-> TRUE, shown |-> FALSE]

\* EventSection({ count, events }); count is events.length wherever it is used
EventSection(heap, events) ==
    IF Len(heap[events]) = 0 THEN [heap |-> heap, out |-> NothingShown]
    ELSE LET copy == ArraySpread(heap, events)
             sorted == ArraySortNewestFirst(copy.heap, copy.ref)
             preview == ArraySlice(sorted.heap, sorted.ref, 0, EVENT_PREVIEW)
             rest == ArraySlice(preview.heap, sorted.ref, EVENT_PREVIEW,
                                Len(preview.heap[sorted.ref]))
         IN  [heap |-> rest.heap,
              out |-> [rendered |-> TRUE, shown |-> TRUE,
                       preview |-> rest.heap[preview.ref], rest |-> rest.heap[rest.ref]]]

\* x || []
OrEmptyArray(heap, ref) ==
    IF ref = UndefinedRef THEN Allocate(heap, <<>>) ELSE [heap |-> heap, ref |-> ref]

\* faulty variant of DecisionLog: entries.slice(0, 20).reverse(), the oldest rows
DecisionLogOldest(heap, entries) ==
    LET displayEntries == ArraySlice(heap, entries, 0, DECISION_LOG_ROWS)
        reversed == ArrayReverse(displayEntries.heap, displayEntries.ref)
    IN  [heap |-> reversed.heap,
         out |-> [rendered |-> TRUE, shown |-> TRUE, rows |-> reversed.heap[reversed.ref]]]

\* faulty variant of DecisionLog: entries.reverse().slice(0, 20), without the copy
DecisionLogReversesEntries(heap, entries) ==
    LET reversed == ArrayReverse(heap, entries)
        displayEntries == ArraySlice(reversed.heap, reversed.ref, 0, DECISION_LOG_ROWS)
    IN  [heap |-> displayEntries.heap,
         out |-> [rendered |-> TRUE, shown |-> TRUE,
                  rows |-> displayEntries.heap[displayEntries.ref]]]

\* DecisionLog({ entries }): (entries || []).slice().reverse().slice(0, 20)
DecisionLog(heap, entries) ==
    LET copy == ArraySlice(heap, entries, 0, Len(heap[entries]))
        reversed == ArrayReverse(copy.heap, copy.ref)
        displayEntries == ArraySlice(reversed.heap, reversed.ref, 0, DECISION_LOG_ROWS)
    IN  [heap |-> displayEntries.heap,
         out |-> [rendered |-> TRUE, shown |-> TRUE,
                  rows |-> displayEntries.heap[displayEntries.ref]]]

\* ApiHealthLog({ entries }): [...entries].reverse()
ApiHealthLog(heap, entries) ==
    IF Len(heap[entries]) = 0 THEN [heap |-> heap, out |-> NothingShown]
    ELSE LET copy == ArraySpread(heap, entries)
             displayEntries == ArrayReverse(copy.heap, copy.ref)
         IN  [heap |-> displayEntries.heap,
              out |-> [rendered |-> TRUE, shown |-> TRUE,
                       rows |-> displayEntries.heap[displayEntries.ref]]]

\* faulty variant of ResolutionTimeoutBanner: notifications.slice(0, 10).reverse()
ResolutionTimeoutBannerOldest(heap, notifications) ==
    IF notifications = UndefinedRef \/ Len(heap[notifications]) = 0
    THEN [heap |-> heap, out |-> NothingShown]
    ELSE LET latest == ArraySlice(heap, notifications, 0, NOTIFICATION_ROWS)
             shown == ArrayReverse(latest.heap, latest.ref)
         IN  [heap |-> shown.heap,
              out |-> [rendered |-> TRUE, shown |-> TRUE, rows |-> shown.heap[shown.ref]]]

\* ResolutionTimeoutBanner({ notifications }): null when !notifications?.length,
\* else notifications.slice(-10).reverse()
ResolutionTimeoutBanner(heap, notifications) ==
    IF notifications = UndefinedRef \/ Len(heap[notifications]) = 0
    THEN [heap |-> heap, out |-> NothingShown]
    ELSE LET latest == ArraySlice(heap, notifications, -NOTIFICATION_ROWS,
                                  Len(heap[notifications]))
             shown == ArrayReverse(latest.heap, latest.ref)
         IN  [heap |-> shown.heap,
              out |-> [rendered |-> TRUE, shown |-> TRUE, rows |-> shown.heap[shown.ref]]]

\* the loop body of EquityChart's data effect for one account's equity_history
\* (acct.equity_history || []): map, sort, downsample, setData
SeriesData(heap, equity_history) ==
    IF equity_history = UndefinedRef \/ Len(heap[equity_history]) = 0
    THEN [heap |-> heap, out |-> NothingShown]
    ELSE LET history == equity_history
             mapped == Allocate(heap, ToPoints(heap[history]))
             sorted == ArraySortByTime(mapped.heap, mapped.ref)
             data == ArrayDownsample(sorted.heap, sorted.ref, MAX_CHART_POINTS)
         IN  [heap |-> data.heap,
              out |-> [rendered |-> TRUE, shown |-> TRUE, rows |-> data.heap[data.ref]]]

\* the entries of decision_log, api_health_log and resolution_timeout_notifications
LogEntries == 1..MaxLog

\* the points of an equity_history
HistoryPoints == [ts : 1..MaxTs, equity : EquityValues]

ViewKinds == {"events", "decisions", "api_health", "notifications", "history"}

\* the arrays a snapshot may carry for a component
ViewSources(kind) ==
    CASE kind = "events" -> SeqsUpTo(SectionEvents, MaxSection)
      [] kind = "history" -> SeqsUpTo(HistoryPoints, MaxHist)
      [] OTHER -> SeqsUpTo(LogEntries, MaxLog)

\* the reference the snapshot's field evaluates to
SourceRef == IF viewMissing THEN UndefinedRef ELSE 1

ViewsIdle ==
    /\ viewKind = "events"
    /\ viewSource = <<>>
    /\ viewMissing = FALSE
    /\ viewOut = NotRendered
    /\ viewRenders = 0

ViewsInit ==
    /\ viewKind \in ViewKinds
    /\ viewSource \in ViewSources(viewKind)
    /\ viewMissing \in BOOLEAN
    /\ viewMissing => (viewSource = <<>> /\ viewKind # "events")
    /\ viewOut = NotRendered
    /\ viewRenders = 0

\* one render of a component: the snapshot's array is the only array on the heap
\* before, and what the render leaves of it is the snapshot's array after
Rendered(result) ==
    /\ viewRenders < MaxRenders
    /\ viewSource' = result.heap[1]
    /\ viewOut' = result.out
    /\ viewRenders' = viewRenders + 1
    /\ UNCHANGED <<viewKind, viewMissing, notViewVars>>

RenderEventSection ==
    /\ viewKind = "events"
    /\ Rendered(EventSection(<<viewSource>>, 1))

\* <DecisionLog entries={state.decision_log || []} />
RenderDecisionLog ==
    /\ viewKind = "decisions"
    /\ LET entries == OrEmptyArray(<<viewSource>>, SourceRef)
       IN  Rendered(DecisionLog(entries.heap, entries.ref))

\* {(state.api_health_log || []).length > 0 && <ApiHealthLog entries={state.api_health_log} />}
RenderApiHealthLog ==
    /\ viewKind = "api_health"
    /\ LET entries == OrEmptyArray(<<viewSource>>, SourceRef)
       IN  IF Len(entries.heap[entries.ref]) > 0
           THEN Rendered(ApiHealthLog(<<viewSource>>, SourceRef))
           ELSE Rendered([heap |-> <<viewSource>>, out |-> NothingShown])

RenderResolutionTimeoutBanner ==
    /\ viewKind = "notifications"
    /\ Rendered(ResolutionTimeoutBanner(<<viewSource>>, SourceRef))

RenderSeriesData ==
    /\ viewKind = "history"
    /\ Rendered(SeriesData(<<viewSource>>, SourceRef))

ViewsNext ==
    \/ RenderEventSection
    \/ RenderDecisionLog
    \/ RenderApiHealthLog
    \/ RenderResolutionTimeoutBanner
    \/ RenderSeriesData

(***************************************************************************)
(* TradeColumn's expandedSection state                                     *)
(***************************************************************************)
\* the section keys of the EventSection wiring, in render order
Sections == {"wins", "losses", "entries", "near_misses"}

\* the events prop each EventSection is given
SectionList(acct, section) ==
    LET lists == TradeColumnLists(acct)
    IN  CASE section = "wins" -> lists.wins
          [] section = "losses" -> lists.losses
          [] section = "entries" -> lists.entries
          [] section = "near_misses" -> lists.nearMisses

\* expanded={expandedSection === "<section>"}
ExpandedProp(cell, section) == cell = section

\* EventSection renders its toggle button when rest.length > 0
HasToggle(acct, section) == Len(SectionList(acct, section)) > EVENT_PREVIEW

\* k events like e, in the order the backend appends them: oldest first
Block(e, k) == [i \in 1..k |-> [e EXCEPT !.time = [present |-> TRUE, chars |-> <<i>>]]]

\* trade_events logs whose sections are empty, short, or long enough to be toggled
ColumnLogs ==
    LET sizes == {0, 1, EVENT_PREVIEW + 1}
        noTime == [present |-> FALSE, chars |-> <<>>]
        win == [type |-> "RESOLUTION", result |-> "WIN", reject_reason |-> NoReason,
                time |-> noTime]
        loss == [type |-> "RESOLUTION", result |-> "LOSS", reject_reason |-> NoReason,
                 time |-> noTime]
        entry == [type |-> "ENTRY", result |-> Undefined, reject_reason |-> NoReason,
                  time |-> noTime]
        miss == [type |-> "NEAR_MISS", result |-> Undefined,
                 reject_reason |-> [present |-> TRUE, words |-> <<"move", "below", "threshold">>],
                 time |-> noTime]
    IN  { Block(win, w) \o Block(loss, l) \o Block(entry, n) \o Block(miss, m) :
             w \in sizes, l \in sizes, n \in sizes, m \in sizes }

ColumnAccounts == [label : {LabelOf("dual")}, trade_events : ColumnLogs]

\* the deferred prop: the deferred resolutions of the column's mode
ColumnDeferred == { <<>>, <<[mode |-> "dual", strategy |-> "momentum"]>> }

\* what EventSection returns: nothing for count 0, else the preview rows, the
\* toggle button when rest.length > 0, and the rest rows when also expanded
EventSectionView(events, expanded) ==
    LET out == EventSection(<<events>>, 1).out
    IN  IF ~out.shown THEN [shown |-> FALSE, rows |-> <<>>, toggle |-> FALSE, more |-> <<>>]
        ELSE [shown |-> TRUE,
              rows |-> out.preview,
              toggle |-> Len(out.rest) > 0,
              more |-> IF Len(out.rest) > 0 /\ expanded THEN out.rest ELSE <<>>]

\* faulty variant of TradeColumnView: the placeholder does not look at deferred
TradeColumnViewIgnoresDeferred(acct, cell, deferred) ==
    LET lists == TradeColumnLists(acct)
    IN  [waiting |-> deferred,
         sections |-> [section \in Sections |->
                         EventSectionView(SectionList(acct, section), ExpandedProp(cell, section))],
         placeholder |-> /\ Len(lists.wins) = 0 /\ Len(lists.losses) = 0
                         /\ Len(lists.entries) = 0 /\ Len(lists.nearMisses) = 0]

\* what TradeColumn returns: the Waiting list, the four EventSections, and the
\* "No events yet..." placeholder
TradeColumnView(acct, cell, deferred) ==
    LET lists == TradeColumnLists(acct)
    IN  [waiting |-> deferred,
         sections |-> [section \in Sections |->
                         EventSectionView(SectionList(acct, section), ExpandedProp(cell, section))],
         placeholder |-> /\ Len(lists.wins) = 0 /\ Len(lists.losses) = 0
                         /\ Len(lists.entries) = 0 /\ Len(lists.nearMisses) = 0
                         /\ Len(deferred) = 0]

NoOp == [op |-> "none", section |-> Null]

ColumnIdle ==
    /\ colMounted = FALSE
    /\ colAcct = [label |-> LabelOf("dual"), trade_events |-> <<>>]
    /\ colDeferred = <<>>
    /\ expandedSection = Null
    /\ colOp = NoOp

ColumnInit == ColumnIdle

\* Dashboard renders a TradeColumn for an account that is now in the snapshot:
\* useState<string | null>(null)
ColumnMount(acct, deferred) ==
    /\ ~colMounted
    /\ colMounted' = TRUE
    /\ colAcct' = acct
    /\ colDeferred' = deferred
    /\ expandedSection' = Null
    /\ colOp' = [op |-> "mount", section |-> Null]
    /\ UNCHANGED notColumnVars

\* a poll update whose snapshot keeps the account: same key, new props
ColumnUpdate(acct, deferred) ==
    /\ colMounted
    /\ colAcct' = acct
    /\ colDeferred' = deferred
    /\ colOp' = [op |-> "update", section |-> Null]
    /\ UNCHANGED <<colMounted, expandedSection, notColumnVars>>

\* faulty variant of ToggleSection: setExpandedSection(section)
ToggleSectionOpens(section) ==
    /\ colMounted
    /\ HasToggle(colAcct, section)
    /\ expandedSection' = section
    /\ colOp' = [op |-> "toggle", section |-> section]
    /\ UNCHANGED <<colMounted, colAcct, colDeferred, notColumnVars>>

\* a click on the toggle button of a section: toggleSection(section)
ToggleSection(section) ==
    /\ colMounted
    /\ HasToggle(colAcct, section)
    /\ expandedSection' = IF expandedSection = section THEN Null ELSE section
    /\ colOp' = [op |-> "toggle", section |-> section]
    /\ UNCHANGED <<colMounted, colAcct, colDeferred, notColumnVars>>

\* a poll update whose snapshot lacks the account: Dashboard returns null for
\* the mode and the column, with its state, is gone
ColumnUnmount ==
    /\ colMounted
    /\ colMounted' = FALSE
    /\ colOp' = [op |-> "unmount", section |-> Null]
    /\ UNCHANGED <<colAcct, colDeferred, expandedSection, notColumnVars>>

ColumnNext ==
    \/ \E acct \in ColumnAccounts, deferred \in ColumnDeferred : ColumnMount(acct, deferred)
    \/ \E acct \in ColumnAccounts, deferred \in ColumnDeferred : ColumnUpdate(acct, deferred)
    \/ \E section \in Sections : ToggleSection(section)
    \/ ColumnUnmount

(***************************************************************************)
(* Dashboard's render body                                                 *)
(***************************************************************************)
\* a JS number as an exact fraction, or one of the non-finite numbers
Ratio(n, d) == [kind |-> "num", num |-> n, den |-> d]
NonFinite(k) == [kind |-> k, num |-> 0, den |-> 1]
NegInfinity == [kind |-> "ninf", tenths |-> 0]

\* x / d for a number x given in tenths and a positive literal d
Divide(x, d) ==
    CASE x.kind = "num" -> Ratio(x.tenths, 10 * d)
      [] x.kind = "null" -> Ratio(0, 1)
      [] OTHER -> NonFinite(x.kind)

\* a < b for two numbers neither of which is NaN
Less(a, b) ==
    CASE a.kind = "ninf" -> b.kind # "ninf"
      [] a.kind = "inf" -> FALSE
      [] b.kind = "ninf" -> FALSE
      [] b.kind = "inf" -> TRUE
      [] OTHER -> a.num * b.den < b.num * a.den

\* Math.max(a, b) and Math.min(a, b): NaN when an argument is NaN
MathMax(a, b) ==
    IF a.kind = "nan" \/ b.kind = "nan" THEN NonFinite("nan")
    ELSE IF Less(a, b) THEN b ELSE a

MathMin(a, b) ==
    IF a.kind = "nan" \/ b.kind = "nan" THEN NonFinite("nan")
    ELSE IF Less(b, a) THEN b ELSE a

\* faulty variant of windowPct: Math.min(1, mkt.seconds_elapsed / 300), without the floor
windowPctNoFloor(mkt) ==
    IF ~mkt.isNull
    THEN MathMin(Ratio(1, 1), Divide(mkt.seconds_elapsed, WINDOW_SECS))
    ELSE Ratio(0, 1)

\* const windowPct = mkt ? Math.min(1, Math.max(0, mkt.seconds_elapsed / 300)) : 0
windowPct(mkt) ==
    IF ~mkt.isNull
    THEN MathMin(Ratio(1, 1), MathMax(Ratio(0, 1), Divide(mkt.seconds_elapsed, WINDOW_SECS)))
    ELSE Ratio(0, 1)

\* faulty variant of DeferredOf: every column is handed the whole list
DeferredOfUnfiltered(st, mode) ==
    IF st.deferred_resolutions.present THEN st.deferred_resolutions.list ELSE <<>>

\* (state.deferred_resolutions || []).filter((d) => d.mode === mode)
DeferredOf(st, mode) ==
    SelectSeq(IF st.deferred_resolutions.present THEN st.deferred_resolutions.list ELSE <<>>,
              LAMBDA d : d.mode = mode)

\* accounts[mode] of "const accounts = state.accounts || {}" is an account
HasAccount(st, mode) == st.accounts.present /\ mode \in st.accounts.keys

\* Object.entries(MODE_CONFIG).map(([mode, cfg]) => ...): per MODE_CONFIG key,
\* in its order, null or a TradeColumn with its deferred prop; the column shows
\* "Waiting (count)" and the list when deferred.length > 0
TradeColumns(st) ==
    [i \in 1..Len(ModeOrder) |->
        LET mode == ModeOrder[i]
            deferred == DeferredOf(st, mode)
        IN  IF ~HasAccount(st, mode)
            THEN [mode |-> mode, mounted |-> FALSE, waiting |-> FALSE, count |-> 0,
                  deferred |-> <<>>]
            ELSE [mode |-> mode, mounted |-> TRUE, waiting |-> Len(deferred) > 0,
                  count |-> Len(deferred), deferred |-> deferred]]

\* seconds_elapsed values of a market, in tenths of a second: around 0 and
\* around the window's length, and the infinities JSON.parse yields on overflow
ElapsedValues ==
    { Num(t) : t \in { -50, -1, 0, 1, 5 * WINDOW_SECS, 10 * WINDOW_SECS - 1,
                       10 * WINDOW_SECS, 10 * WINDOW_SECS + 1, 15 * WINDOW_SECS } }
       \cup {JsInfinity, NegInfinity}

DashMarkets ==
    {[isNull |-> TRUE]} \cup { [isNull |-> FALSE, seconds_elapsed |-> v] : v \in ElapsedValues }

\* an account key and a deferred mode that MODE_CONFIG does not have
OtherMode == "legacy"

\* state.accounts: absent, or an object with some of the keys
DashAccounts ==
    {[present |-> FALSE, keys |-> {}]}
       \cup { [present |-> TRUE, keys |-> k] : k \in SUBSET (Modes \cup {OtherMode}) }

\* deferred_resolutions: the i-th entry has slug i and any mode
DeferredLists ==
    UNION { { [i \in 1..n |-> [slug |-> i, mode |-> ms[i]]] :
                ms \in [1..n -> Modes \cup {OtherMode}] } : n \in 0..MaxDeferred }

DashDeferred ==
    {[present |-> FALSE, list |-> <<>>]}
       \cup { [present |-> TRUE, list |-> l] : l \in DeferredLists }

DashStates ==
    [current_market : DashMarkets, accounts : DashAccounts,
     deferred_resolutions : DashDeferred]

DashIdle ==
    /\ dashState = [current_market |-> [isNull |-> TRUE],
                    accounts |-> [present |-> FALSE, keys |-> {}],
                    deferred_resolutions |-> [present |-> FALSE, list |-> <<>>]]
    /\ dashView = NotRendered

DashInit ==
    /\ dashState \in DashStates
    /\ dashView = NotRendered

\* Dashboard renders its body from the snapshot
RenderDashboard ==
    /\ ~dashView.rendered
    /\ dashView' = [rendered |-> TRUE,
                    windowPct |-> windowPct(dashState.current_market),
                    marketWindow |-> ~dashState.current_market.isNull,
                    columns |-> TradeColumns(dashState)]
    /\ UNCHANGED <<dashState, notDashVars>>

DashNext == RenderDashboard

(***************************************************************************)
(* sendCommand                                                             *)
(***************************************************************************)
\* the actions of the three buttons
CommandActions == {"skip", "stop", "reset_chart"}

\* how a POST /api/command ends: a 2xx response, a non-OK response, a rejection
CommandOutcomes == {"ok", "not_ok", "rejected"}

CommandIdle ==
    /\ cmdSent = 0
    /\ cmdPending = {}
    /\ cmdLast = "none"

\* faulty variant of CommandSettles: a failed command is reported through the error cell
CommandSettlesReportsError(c, outcome) ==
    /\ c \in cmdPending
    /\ cmdPending' = cmdPending \ {c}
    /\ cmdLast' = outcome
    /\ error' = IF outcome = "ok" THEN error ELSE "Connection failed"
    /\ UNCHANGED <<cmdSent, pstatus, state, lastFetch, inflight, issued, completed, now,
                   elapsed, downsampleVars, chartVars, healthVars, tradeVars, viewVars,
                   columnVars, dashVars>>

\* a button's onClick: sendCommand(action) issues the POST; the buttons are
\* rendered only once a snapshot is held
SendCommand(action) ==
    /\ pstatus = "mounted"
    /\ ~state.isNull
    /\ cmdSent < MaxCommands
    /\ cmdSent' = cmdSent + 1
    /\ cmdPending' = cmdPending \cup {[id |-> cmdSent + 1, action |-> action]}
    /\ UNCHANGED <<cmdLast, notCommandVars>>

\* the awaited fetch of sendCommand settles: the response is not examined and a
\* rejection is caught and ignored
CommandSettles(c, outcome) ==
    /\ c \in cmdPending
    /\ cmdPending' = cmdPending \ {c}
    /\ cmdLast' = outcome
    /\ UNCHANGED <<cmdSent, notCommandVars>>

\* the page: the polling loop together with the command buttons
CommandNext ==
    \/ Mount
    \/ IntervalTick
    \/ Advance
    \/ Unmount
    \/ \E r \in 1..MaxRequests, e \in FetchRejections : FetchRejects(r, e)
    \/ \E r \in 1..MaxRequests, status \in HttpStatuses, bodyIsJson \in BOOLEAN :
          FetchResolves(r, status, bodyIsJson)
    \/ \E action \in CommandActions : SendCommand(action)
    \/ \E id \in 1..MaxCommands, action \in CommandActions, outcome \in CommandOutcomes :
          CommandSettles([id |-> id, action |-> action], outcome)

(***************************************************************************)
(* Specifications                                                          *)
(***************************************************************************)
InitPoller == PollerInit /\ DownsampleIdle /\ ChartIdle /\ HealthIdle /\ TradesIdle /\ ViewsIdle /\ ColumnIdle /\ DashIdle /\ CommandIdle

SpecPoller == InitPoller /\ [][PollerNext]_vars

InitDownsample == DownsampleInit /\ PollerInit /\ ChartIdle /\ HealthIdle /\ TradesIdle /\ ViewsIdle /\ ColumnIdle /\ DashIdle /\ CommandIdle

SpecDownsample == InitDownsample /\ [][DownsampleNext]_vars

InitChart == ChartInit /\ PollerInit /\ DownsampleIdle /\ HealthIdle /\ TradesIdle /\ ViewsIdle /\ ColumnIdle /\ DashIdle /\ CommandIdle

SpecChart == InitChart /\ [][ChartNext]_vars

InitHealth == HealthInit /\ PollerInit /\ DownsampleIdle /\ ChartIdle /\ TradesIdle /\ ViewsIdle /\ ColumnIdle /\ DashIdle /\ CommandIdle

SpecHealth == InitHealth /\ [][HealthNext]_vars

InitTrades == TradesInit /\ PollerInit /\ DownsampleIdle /\ ChartIdle /\ HealthIdle /\ ViewsIdle /\ ColumnIdle /\ DashIdle /\ CommandIdle

SpecTrades == InitTrades /\ [][TradesNext]_vars

InitViews == ViewsInit /\ PollerInit /\ DownsampleIdle /\ ChartIdle /\ HealthIdle /\ TradesIdle /\ ColumnIdle /\ DashIdle /\ CommandIdle

SpecViews == InitViews /\ [][ViewsNext]_vars

InitColumn == ColumnInit /\ PollerInit /\ DownsampleIdle /\ ChartIdle /\ HealthIdle /\ TradesIdle /\ ViewsIdle /\ DashIdle /\ CommandIdle

SpecColumn == InitColumn /\ [][ColumnNext]_vars

InitDash ==
    DashInit /\ PollerInit /\ DownsampleIdle /\ ChartIdle /\ HealthIdle /\ TradesIdle
       /\ ViewsIdle /\ ColumnIdle /\ CommandIdle

SpecDash == InitDash /\ [][DashNext]_vars

InitCommand ==
    PollerInit /\ CommandIdle /\ DownsampleIdle /\ ChartIdle /\ HealthIdle /\ TradesIdle
       /\ ViewsIdle /\ ColumnIdle /\ DashIdle

SpecCommand == InitCommand /\ [][CommandNext]_vars

(***************************************************************************)
(* Claims about the state poller                                           *)
(***************************************************************************)
\* ids of the fetches that completed successfully
Succeeded == { completed[i].req : i \in { j \in 1..Len(completed) : completed[j].kind = "ok" } }

\* the largest element of a non-empty set of numbers
SetMax(S) == CHOOSE x \in S : \A y \in S : y <= x

\* the outcome a step appends to the history, if it appends one
NewOutcomes == IF Len(completed') > Len(completed) THEN {completed'[Len(completed')]} ELSE {}

\* the message expected for a failed fetch
ExpectedMessage(o) ==
    IF o.kind = "http" THEN "HTTP " \o ToString(o.status)
    ELSE IF o.thrown.isError THEN o.thrown.message
    ELSE "Connection failed"

\* C2: a fetch that fails at any stage (network exception, non-OK status, JSON
\* parse error) sets error to the non-null message "HTTP <status>", the Error's
\* message or "Connection failed", and leaves the snapshot and lastFetch unchanged.
C2_FailureKeepsSnapshot ==
    [][\A o \in NewOutcomes :
          o.kind # "ok" =>
             /\ error' # Null
             /\ error' = ExpectedMessage(o)
             /\ state' = state
             /\ lastFetch' = lastFetch]_vars

\* C2 witness: a fetch failed after a snapshot was received; the snapshot is still held
C2_Witness ==
    /\ Len(completed) >= 2
    /\ completed[Len(completed)].kind # "ok"
    /\ \E i \in 1..(Len(completed) - 1) : completed[i].kind = "ok"
    /\ ~state.isNull
    /\ error # Null
    /\ lastFetch # 0

\* C3: polling goes on after errors: mounting issues a fetch, a due interval tick
\* issues one whatever the outcome of earlier fetches (error set, fetches still in
\* flight), and a successful fetch replaces the snapshot and resets error to null.
C3_KeepsPolling ==
    /\ [](pstatus = "mounted" => issued >= 1)
    /\ []((pstatus = "mounted" /\ elapsed >= REFRESH_MS /\ issued < MaxRequests)
            => ENABLED IntervalTick)
    /\ [][\A o \in NewOutcomes :
             o.kind = "ok" => (state' = Snapshot(o.req) /\ error' = Null)]_vars

\* C3 witness: a fetch failed, a later tick issued another fetch, and that one
\* succeeded: its snapshot is held and error is null again
C3_Witness ==
    /\ Len(completed) >= 2
    /\ completed[Len(completed)].kind = "ok"
    /\ \E i \in 1..(Len(completed) - 1) :
          /\ completed[i].kind # "ok"
          /\ completed[Len(completed)].req > completed[i].issuedThen
    /\ state = Snapshot(completed[Len(completed)].req)
    /\ error = Null

\* C4: with overlapping fetches, the held snapshot is the response of the most
\* recently issued request among those that succeeded.
C4_HoldsLatestIssued ==
    Succeeded # {} => state = Snapshot(SetMax(Succeeded))

\* C16: once a snapshot has been received the dashboard never returns to the
\* loading screen: the held snapshot stays non-null through later failures and
\* successes, the full dashboard is rendered and the error shows only as the red
\* header dot (red iff error is non-null); the loading screen, with "Connection
\* error: <message>" or "Connecting to bot...", shows only while no fetch has
\* succeeded yet.
C16_NoReturnToLoading ==
    /\ [](LET view == Dashboard(state, error)
          IN  IF Succeeded # {}
              THEN /\ ~state.isNull
                   /\ view.screen = "dashboard"
                   /\ view.dot = "red" <=> error # Null
              ELSE /\ view.screen = "loading"
                   /\ view.text = IF error # Null THEN "Connection error: " \o error
                                  ELSE "Connecting to bot...")
    /\ [][Dashboard(state, error).screen = "dashboard"
             => Dashboard(state', error').screen = "dashboard"]_vars

\* C16 witness: a fetch fails after a snapshot was received: dashboard, red dot
C16_Witness ==
    /\ Len(completed) >= 2
    /\ completed[1].kind = "ok"
    /\ completed[Len(completed)].kind # "ok"
    /\ error # Null
    /\ Dashboard(state, error) = [screen |-> "dashboard", dot |-> "red"]

\* C17: a snapshot is held iff lastFetch is non-zero, and lastFetch changes only
\* in the step in which a fetch succeeds, together with the snapshot being
\* replaced and error being set to null.
C17_LastFetchWithSnapshot ==
    /\ [](~state.isNull <=> lastFetch # 0)
    /\ [][lastFetch' # lastFetch =>
             /\ NewOutcomes # {}
             /\ \A o \in NewOutcomes :
                   /\ o.kind = "ok"
                   /\ state' = Snapshot(o.req)
                   /\ error' = Null
                   /\ lastFetch' = now]_vars

\* C17 witness: a second success moves lastFetch to a later time
C17_Witness ==
    /\ Cardinality(Succeeded) >= 2
    /\ ~state.isNull
    /\ lastFetch > TimeStep

\* C19: after the unmount no fetch is issued any more; only responses to the
\* requests in flight at the unmount still arrive.
C19_NoFetchAfterUnmount ==
    /\ [][pstatus = "unmounted" =>
             /\ pstatus' = "unmounted"
             /\ issued' = issued
             /\ inflight' \subseteq inflight]_vars
    /\ [][(pstatus = "mounted" /\ pstatus' = "unmounted") =>
             (issued' = issued /\ inflight' = inflight)]_vars

\* C19 witness: unmounted when an interval tick was due and could have issued a
\* fetch, with a request still in flight
C19_Witness ==
    /\ pstatus = "unmounted"
    /\ elapsed >= REFRESH_MS
    /\ issued < MaxRequests
    /\ inflight # {}

(***************************************************************************)
(* Claims about downsample                                                 *)
(***************************************************************************)
\* whether sub is a subsequence of seq (greedy matching from the left)
RECURSIVE IsSubsequence(_, _)
IsSubsequence(sub, seq) ==
    IF sub = <<>> THEN TRUE
    ELSE IF seq = <<>> THEN FALSE
    ELSE IF Head(sub) = Head(seq) THEN IsSubsequence(Tail(sub), Tail(seq))
    ELSE IsSubsequence(sub, Tail(seq))

\* C6: downsample returns the input unchanged when data.length <= maxPoints and
\* exactly maxPoints points when data.length > maxPoints, so never more than
\* maxPoints points reach the chart.
C6_PointCeiling ==
    dsApplied =>
       /\ Len(dsOut) <= dsMaxPoints
       /\ Len(dsData) <= dsMaxPoints => dsOut = dsData
       /\ Len(dsData) > dsMaxPoints => Len(dsOut) = dsMaxPoints

\* C6 witness: an array longer than the ceiling was cut down to the ceiling
C6_Witness ==
    /\ dsApplied
    /\ dsMaxPoints >= 2
    /\ Len(dsData) > dsMaxPoints + 1
    /\ Len(dsOut) = dsMaxPoints

\* C7: for data.length > maxPoints >= 2 the source indices are strictly
\* increasing and in range, the first is the first point's and the last is the last
\* point's, and the output is the input's points at those indices: a subsequence
\* that starts with the first and ends with the last point.
C7_OrderedSubsequence ==
    (dsApplied /\ Len(dsData) > dsMaxPoints /\ dsMaxPoints >= 2) =>
       LET n == Len(dsData)
           m == Len(dsOut)
       IN  /\ m >= 2
           /\ dsOut[1] = dsData[1]
           /\ dsOut[m] = dsData[n]
           /\ IsSubsequence(SubSeq(dsOut, 2, m - 1), SubSeq(dsData, 2, n - 1))
           /\ \E f \in [1..m -> 1..n] :
                 /\ f[1] = 1
                 /\ f[m] = n
                 /\ \A k \in 1..(m - 1) : f[k] < f[k + 1]
                 /\ \A k \in 1..m : dsOut[k] = dsData[f[k]]

\* C7 witness: a downsampled array that skips interior points of its input
C7_Witness ==
    /\ dsApplied
    /\ dsMaxPoints >= 3
    /\ Len(dsData) >= dsMaxPoints + 2
    /\ Len(dsOut) = dsMaxPoints
    /\ \E i \in 1..(Len(dsData) - 1) : dsData[i] # dsData[i + 1]

(***************************************************************************)
(* Claims about the equity chart adapter                                   *)
(***************************************************************************)
\* the step is a data update (at mount or on a poll) against a live chart
DataUpdateStep == lastOp' \in {"mount", "update"} /\ chartRef' # 0

\* the data update of the step calls fitContent
CallsFitContent ==
    IF lastOp' = "mount" THEN rangeCalls' = 1 ELSE rangeCalls' = rangeCalls + 1

\* the data update of the step is the first one of its chart instance that
\* carries a non-empty equity history
FirstHistoryUpdate == sawHistory' /\ (lastOp' = "mount" \/ ~sawHistory)

\* C1: per chart instance the adapter changes the visible range at most once, on
\* the first data update that carries a non-empty equity history, and no later
\* data update calls fitContent, so a range the user chose is never reset.
C1_RangeSetOnFirstHistory ==
    /\ [](rangeCalls <= 1)
    /\ [][DataUpdateStep => (CallsFitContent <=> FirstHistoryUpdate)]_vars
    /\ [][(DataUpdateStep /\ lastOp' = "update" /\ sawHistory)
             => visibleRange' = visibleRange]_vars

\* What the code does guarantee: fitContent is called at most once per chart
\* instance, by the first data update that plots a history, and a data update
\* that comes after that call leaves the visible range alone.
RangeSetAtMostOnce ==
    /\ [](rangeCalls <= 1)
    /\ [][DataUpdateStep =>
             (CallsFitContent <=>
                (HasData(accounts', seriesRefs') /\ (lastOp' = "mount" \/ ~initialRangeSet)))]_vars
    /\ [][(DataUpdateStep /\ lastOp' = "update" /\ initialRangeSet)
             => visibleRange' = visibleRange]_vars

\* C5: after every data update each account of the snapshot whose key is in
\* MODE_CONFIG has exactly one line series in the chart, also when it was absent
\* from the snapshot the chart was created with.
C5_OneSeriesPerAccount ==
    (chartRef # 0 /\ lastOp \in {"mount", "update"}) =>
       \A mode \in Modes \cap DOMAIN accounts : chartSeries[mode] = 1

\* the state follows a data update against a live chart
AfterDataUpdate == chartRef # 0 /\ lastOp \in {"mount", "update"}

\* C14: after every data update the data of each existing series equals the
\* time-sorted, downsampled equity history of its account in the latest
\* snapshot; a series whose account has an empty history, or is gone from the
\* snapshot, shows no points.
C14_SeriesShowLatestSnapshot ==
    AfterDataUpdate =>
       \A mode \in seriesRefs :
          seriesData[mode] =
             IF mode \in DOMAIN accounts THEN ChartData(accounts[mode]) ELSE <<>>

\* a and b hold the same elements the same number of times
IsPermutation(a, b) ==
    /\ Len(a) = Len(b)
    /\ \A i \in 1..Len(a) :
          Cardinality({ j \in 1..Len(a) : a[j] = a[i] })
             = Cardinality({ j \in 1..Len(b) : b[j] = a[i] })

\* C15: whatever the order of equity_history, the points handed to setData are in
\* non-decreasing time order; before downsampling they are a permutation of the
\* history's (ts, equity) pairs, and downsampling keeps their order.
C15_DataInTimeOrder ==
    AfterDataUpdate =>
       \A mode \in Modes :
          Plots(accounts, seriesRefs, mode) =>
             LET points == ToPoints(accounts[mode])
                 sorted == SortByTime(points)
             IN  /\ IsPermutation(sorted, points)
                 /\ TimeSorted(sorted)
                 /\ seriesData[mode] = downsample(sorted, MAX_CHART_POINTS)
                 /\ IsSubsequence(seriesData[mode], sorted)
                 /\ TimeSorted(seriesData[mode])

\* C15 witness: a history that is out of time order and longer than the ceiling
\* has been plotted
C15_Witness ==
    /\ AfterDataUpdate
    /\ \E mode \in Modes :
          /\ Plots(accounts, seriesRefs, mode)
          /\ ~TimeSorted(ToPoints(accounts[mode]))
          /\ Len(accounts[mode]) > MAX_CHART_POINTS
          /\ Len(seriesData[mode]) = MAX_CHART_POINTS

\* C20: the chart is created once per mount and no poll update recreates it; the
\* data update of the mount runs after the creation, so the histories of the
\* first snapshot are plotted at once; every update runs against the live chart,
\* and after the unmount no update calls setData or changes the time scale.
C20_ChartPersistent ==
    /\ [][lastOp' = "mount" =>
             /\ chartRef = 0
             /\ chartsCreated' = chartsCreated + 1
             /\ chartRef' = chartsCreated'
             /\ \A mode \in DOMAIN accounts' :
                   Len(accounts'[mode]) # 0 => seriesData'[mode] = ChartData(accounts'[mode])]_vars
    /\ [][lastOp' = "update" =>
             /\ chartRef' = chartRef
             /\ chartsCreated' = chartsCreated
             /\ chartSeries' = chartSeries
             /\ seriesRefs' = seriesRefs]_vars
    /\ [][(lastOp' = "update" /\ chartRef = 0) =>
             /\ seriesData' = seriesData
             /\ visibleRange' = visibleRange
             /\ rangeCalls' = rangeCalls]_vars
    /\ [](chartRef # 0 => chartRef = chartsCreated)

\* C20 witness: a poll update has plotted new data on the chart of the mount
C20_Witness ==
    /\ lastOp = "update"
    /\ chartRef # 0
    /\ chartRef = chartsCreated
    /\ \E mode \in Modes :
          /\ Plots(accounts, seriesRefs, mode)
          /\ seriesData[mode] = ChartData(accounts[mode])

(***************************************************************************)
(* Claims about the health cards                                           *)
(***************************************************************************)
\* the details that show a literal duration, "<n>s ago"
AgoDetails == { ToString(n) \o "s ago" : n \in -2..(SUSPICIOUS_SECS + 2) }

IsAgoForm(detail) == detail \in AgoDetails

\* a seconds-since-update value that is a sentinel: non-finite, or 600 and more
IsSentinel(v) ==
    v.kind \in {"nan", "inf"}
       \/ (v.kind = "num" /\ (v.tenths >= 10 * MAX_REASONABLE_SECS \/ v.tenths >= 10 * SUSPICIOUS_SECS))

\* C8: with the CLOB WebSocket connected and a market active, a sentinel
\* seconds-since-update value gives status "Stale", ok = false and the detail
\* "No recent update"; a detail "<n>s ago" is produced only for finite values
\* below 600.
C8_ClobSentinelNotLiteral ==
    healthView.rendered =>
       LET secs == healthState.clob_ws_seconds_since_update
           card == healthView.clob
       IN  /\ (healthState.clob_ws_connected /\ ~healthState.current_market.isNull
                 /\ IsSentinel(secs))
              => (card.status = "Stale" /\ card.ok = FALSE /\ card.detail = "No recent update")
           /\ IsAgoForm(card.detail) => ~IsSentinel(secs)

\* C8 witness: the sentinel 999 arrives on a connected socket with an active market
C8_Witness ==
    /\ healthView.rendered
    /\ healthState.clob_ws_connected
    /\ ~healthState.current_market.isNull
    /\ healthState.clob_ws_seconds_since_update = Num(10 * SUSPICIOUS_SECS)
    /\ healthView.clob.status = "Stale"

\* C9: the RTDS WebSocket card never shows a sentinel rtds_seconds_since_update
\* value as a literal "<n>s ago" duration, whatever rtds_connected and rtds_stale.
C9_RtdsSentinelNotLiteral ==
    (healthView.rendered /\ IsSentinel(healthState.rtds_seconds_since_update))
       => ~IsAgoForm(healthView.rtds.detail)

\* an age that makes a connected socket with a market stale: above 60 s, or
\* non-finite (null counts as 0)
IsStaleAge(v) ==
    v.kind \in {"nan", "inf"} \/ (v.kind = "num" /\ v.tenths > 10 * STALE_AFTER_SECS)

\* C13: getClobWsStatus returns one of four statuses by strict precedence: not
\* connected -> Disconnected (ok false, warning false); else no market -> Idle
\* (ok true, warning true); else age > 60 s or sentinel or non-finite -> Stale
\* (ok false, warning false); else Connected (ok true, warning false).  So
\* warning holds iff the status is Idle and ok fails iff it is Disconnected or Stale.
C13_StatusPrecedence ==
    healthView.rendered =>
       LET card == healthView.clob
           connected == healthState.clob_ws_connected
           hasMarket == ~healthState.current_market.isNull
           secs == healthState.clob_ws_seconds_since_update
           stale == IsStaleAge(secs) \/ IsSentinel(secs)
           expected ==
              IF ~connected THEN <<"Disconnected", FALSE, FALSE>>
              ELSE IF ~hasMarket THEN <<"Idle", TRUE, TRUE>>
              ELSE IF stale THEN <<"Stale", FALSE, FALSE>>
              ELSE <<"Connected", TRUE, FALSE>>
       IN  /\ <<card.status, card.ok, card.warning>> = expected
           /\ card.warning <=> card.status = "Idle"
           /\ ~card.ok <=> card.status \in {"Disconnected", "Stale"}

\* C13 witness: a connected socket without a market whose age is stale is Idle
C13_Witness ==
    /\ healthView.rendered
    /\ healthState.clob_ws_connected
    /\ healthState.current_market.isNull
    /\ IsStaleAge(healthState.clob_ws_seconds_since_update)
    /\ healthView.clob.status = "Idle"

(***************************************************************************)
(* Claims about TradeColumn                                                *)
(***************************************************************************)
Elements(list) == { list[i] : i \in 1..Len(list) }

\* how often event e occurs in list
Occurrences(list, e) == Cardinality({ i \in 1..Len(list) : list[i] = e })

\* the Dual column hides the near misses whose reason says the feeds disagree
HiddenNearMiss(e) ==
    /\ tcAcct.label = "Dual (Both)"
    /\ e.reject_reason = [present |-> TRUE, words |-> <<"chainlink", "disagrees">>]

\* C10: the four lists are pairwise disjoint and told by the event's fields
\* alone: wins are the RESOLUTION events with result WIN, losses those with result
\* LOSS, entries the ENTRY events, near misses the NEAR_MISS events (less the ones
\* the Dual column hides); every event is in at most one list, every matching
\* event is in its list as often as it occurs, and other events are in none.
C10_DisjointCategories ==
    tcView.rendered =>
       LET events == tcAcct.trade_events
           lists == <<tcView.wins, tcView.losses, tcView.entries, tcView.nearMisses>>
           Wants(k, e) ==
              IF k = 1 THEN e.type = "RESOLUTION" /\ e.result = "WIN"
              ELSE IF k = 2 THEN e.type = "RESOLUTION" /\ e.result = "LOSS"
              ELSE IF k = 3 THEN e.type = "ENTRY"
              ELSE e.type = "NEAR_MISS" /\ ~HiddenNearMiss(e)
       IN  /\ \A k \in 1..4 : Elements(lists[k]) \subseteq Elements(events)
           /\ \A e \in Elements(events) :
                 /\ Cardinality({ k \in 1..4 : e \in Elements(lists[k]) }) <= 1
                 /\ \A k \in 1..4 :
                       Occurrences(lists[k], e) = IF Wants(k, e) THEN Occurrences(events, e) ELSE 0
           /\ \A k \in 1..4, j \in 1..4 :
                 k # j => Elements(lists[k]) \cap Elements(lists[j]) = {}

\* C10 witness: a column whose events fall into all four lists, beside an event
\* that falls into none
C10_Witness ==
    /\ tcView.rendered
    /\ Len(tcAcct.trade_events) = MaxEvents
    /\ \E e \in Elements(tcAcct.trade_events) :
          /\ e.type = "ENTRY" /\ e.result = "WIN"
          /\ e \in Elements(tcView.entries)
    /\ \E e \in Elements(tcAcct.trade_events) :
          /\ e.type = "RESOLUTION" /\ e.result = "VOID"
    /\ tcView.wins # <<>>

\* C21: a NEAR_MISS event is hidden from the near-misses list iff the account's
\* label is exactly "Dual (Both)" and its reject_reason contains "disagrees"; in
\* every other column, and without a reject_reason, the event is listed.
C21_DualHidesDisagreements ==
    tcView.rendered =>
       LET events == tcAcct.trade_events
           isDual == tcAcct.label = "Dual (Both)"
           Disagrees(e) ==
              e.reject_reason.present
                 /\ \E i \in 1..Len(e.reject_reason.words) : e.reject_reason.words[i] = "disagrees"
       IN  /\ \A e \in Elements(events) :
                 e.type = "NEAR_MISS" =>
                    /\ (Occurrences(tcView.nearMisses, e) = 0) <=> (isDual /\ Disagrees(e))
                    /\ Occurrences(tcView.nearMisses, e) \in {0, Occurrences(events, e)}
           /\ \A e \in Elements(tcView.nearMisses) : e.type = "NEAR_MISS"
           /\ IsSubsequence(tcView.nearMisses, events)

\* C21 witness: a column that is not the Dual one lists a near miss whose reason
\* says the feeds disagree, beside a near miss without a reason
C21_Witness ==
    /\ tcView.rendered
    /\ tcAcct.label # "Dual (Both)"
    /\ \E e \in Elements(tcView.nearMisses) : ReasonIncludes(e, "disagrees")
    /\ \E e \in Elements(tcView.nearMisses) : ~e.reject_reason.present

(***************************************************************************)
(* Claims about the derived lists                                          *)
(***************************************************************************)
\* C11: EventSection renders preview followed by rest as a permutation of the
\* input events in non-increasing order of the time string, an event without a
\* time comparing as "" and so coming after every event with a non-empty time;
\* preview is the first min(3, n) of that order and rest the remainder.
C11_NewestFirstPreview ==
    (viewKind = "events" /\ viewOut.rendered) =>
       LET n == Len(viewSource)
           preview == IF viewOut.shown THEN viewOut.preview ELSE <<>>
           rest == IF viewOut.shown THEN viewOut.rest ELSE <<>>
           all == preview \o rest
       IN  /\ viewOut.shown <=> n > 0
           /\ IsPermutation(all, viewSource)
           /\ \A i \in 1..Len(all), j \in 1..Len(all) :
                 i < j => LocaleCompare(TimeOrEmpty(all[i]), TimeOrEmpty(all[j])) >= 0
           /\ \A i \in 1..Len(all), j \in 1..Len(all) :
                 (TimeOrEmpty(all[i]) = <<>> /\ TimeOrEmpty(all[j]) # <<>>) => j < i
           /\ Len(preview) = Min(EVENT_PREVIEW, n)
           /\ Len(rest) = n - Min(EVENT_PREVIEW, n)

\* C11 witness: more than three events, not in newest-first order, one of them
\* without a time and ahead of a timed one, have been split into preview and rest
C11_Witness ==
    /\ viewKind = "events"
    /\ viewOut.rendered
    /\ Len(viewSource) > EVENT_PREVIEW
    /\ ~viewSource[1].time.present
    /\ TimeOrEmpty(viewSource[2]) # <<>>
    /\ LocaleCompare(TimeOrEmpty(viewSource[2]), TimeOrEmpty(viewSource[3])) < 0
    /\ Len(viewOut.rest) >= 1

\* C12: the derived-list transforms leave the snapshot's own array unchanged, in
\* order and content, and rendering the same snapshot again yields the same
\* derived lists: EventSection's sort, the reversed and truncated decision log,
\* API health log and timeout notifications, the sorted and downsampled equity
\* history.
C12_TransformsLeaveSnapshot ==
    [][/\ viewSource' = viewSource
       /\ viewOut.rendered => viewOut' = viewOut]_vars

\* C12 witness: a snapshot array that sorting or reversing would change has been
\* rendered twice
C12_Witness ==
    /\ viewRenders = MaxRenders
    /\ viewOut.rendered
    /\ viewOut.shown
    /\ Len(viewSource) >= 2
    /\ viewSource[1] # viewSource[Len(viewSource)]
    /\ viewKind \in {"decisions", "api_health", "notifications"} => viewOut.rows # viewSource

(***************************************************************************)
(* Claims about TradeColumn's sections                                     *)
(***************************************************************************)
\* the sections whose EventSection gets expanded = true
ExpandedSections(cell) == { section \in Sections : ExpandedProp(cell, section) }

\* C18: at most one section of a trade column is expanded at any time; toggling
\* a section that is not expanded makes it the only expanded one, toggling the
\* expanded section leaves none expanded, none is expanded initially, and a poll
\* update that keeps the account leaves the expanded section as it is.
C18_OneSectionExpanded ==
    /\ [](Cardinality(ExpandedSections(expandedSection)) <= 1)
    /\ [][colOp'.op = "mount" => ExpandedSections(expandedSection') = {}]_vars
    /\ [][colOp'.op = "toggle" =>
             ExpandedSections(expandedSection') =
                IF colOp'.section \in ExpandedSections(expandedSection)
                THEN {} ELSE {colOp'.section}]_vars
    /\ [][colOp'.op = "update" =>
             ExpandedSections(expandedSection') = ExpandedSections(expandedSection)]_vars

\* C18 witness: a section is expanded while a poll update replaces the account's
\* events, and another section could be toggled now
C18_Witness ==
    /\ colMounted
    /\ colOp.op = "update"
    /\ expandedSection # Null
    /\ \E section \in Sections : section # expandedSection /\ HasToggle(colAcct, section)

\* C22: an event section always displays its three most recent events; its
\* toggle button exists iff it has more than three events; the events beyond the
\* first three are displayed iff it has more than three events and is the
\* column's expanded section; a section with count 0 renders nothing; and "No
\* events yet..." is shown iff wins, losses, entries, near misses and deferred
\* resolutions are all empty.
C22_SectionDisplay ==
    colMounted =>
       LET view == TradeColumnView(colAcct, expandedSection, colDeferred)
       IN  /\ \A section \in Sections :
                 LET list == SectionList(colAcct, section)
                     n == Len(list)
                     sec == view.sections[section]
                     hidden == { i \in 1..n : list[i] \notin Elements(sec.rows) }
                 IN  /\ sec.shown <=> n > 0
                     /\ Len(sec.rows) = Min(EVENT_PREVIEW, n)
                     /\ Elements(sec.rows) \subseteq Elements(list)
                     /\ \A k \in 1..Len(sec.rows), i \in hidden :
                           LocaleCompare(TimeOrEmpty(sec.rows[k]), TimeOrEmpty(list[i])) >= 0
                     /\ \A k \in 1..(Len(sec.rows) - 1) :
                           LocaleCompare(TimeOrEmpty(sec.rows[k]), TimeOrEmpty(sec.rows[k + 1])) >= 0
                     /\ sec.toggle <=> n > EVENT_PREVIEW
                     /\ (sec.more # <<>>) <=> (n > EVENT_PREVIEW /\ expandedSection = section)
                     /\ sec.more # <<>> => IsPermutation(sec.rows \o sec.more, list)
           /\ view.placeholder <=>
                 /\ \A section \in Sections : SectionList(colAcct, section) = <<>>
                 /\ colDeferred = <<>>

\* C22 witness: a column with one section expanded beyond its preview, another
\* longer than the preview but collapsed, an empty section that renders nothing,
\* and a deferred resolution waiting
C22_Witness ==
    /\ colMounted
    /\ colDeferred # <<>>
    /\ \E a \in Sections, b \in Sections, c \in Sections :
          LET view == TradeColumnView(colAcct, expandedSection, colDeferred)
          IN  /\ a # b
              /\ view.sections[a].more # <<>>
              /\ view.sections[b].toggle
              /\ view.sections[b].more = <<>>
              /\ ~view.sections[c].shown
              /\ ~view.placeholder

(***************************************************************************)
(* Claims about the decision log and the timeout banner                    *)
(***************************************************************************)
\* the last k elements of list, latest first
LatestFirst(list, k) ==
    [i \in 1..Min(k, Len(list)) |-> list[Len(list) + 1 - i]]

\* C23: DecisionLog displays at most 20 entries: the last min(20, n) entries of
\* the snapshot's decision_log in reverse of their input order, latest first; a
\* missing decision_log displays nothing.
C23_DecisionLogLatestFirst ==
    (viewKind = "decisions" /\ viewOut.rendered) =>
       /\ Len(viewOut.rows) <= DECISION_LOG_ROWS
       /\ viewOut.rows = LatestFirst(viewSource, DECISION_LOG_ROWS)
       /\ viewMissing => viewOut.rows = <<>>

\* C23 witness: a decision log longer than the row limit, whose oldest entry
\* differs from its latest, has been rendered
C23_Witness ==
    /\ viewKind = "decisions"
    /\ viewOut.rendered
    /\ Len(viewSource) > DECISION_LOG_ROWS
    /\ viewSource[1] # viewSource[Len(viewSource)]
    /\ viewOut.rows[1] = viewSource[Len(viewSource)]

\* C24: ResolutionTimeoutBanner renders nothing when the notification list is
\* missing or empty; otherwise it lists the last min(10, n) notifications in
\* reverse of their input order, latest first.
C24_BannerLatestFirst ==
    (viewKind = "notifications" /\ viewOut.rendered) =>
       IF viewMissing \/ viewSource = <<>>
       THEN ~viewOut.shown
       ELSE /\ viewOut.shown
            /\ viewOut.rows = LatestFirst(viewSource, NOTIFICATION_ROWS)

\* C24 witness: more notifications than the banner lists, the oldest differing
\* from the latest, have been rendered
C24_Witness ==
    /\ viewKind = "notifications"
    /\ viewOut.rendered
    /\ viewOut.shown
    /\ Len(viewSource) > NOTIFICATION_ROWS
    /\ viewSource[1] # viewSource[Len(viewSource)]
    /\ Len(viewOut.rows) = NOTIFICATION_ROWS

(***************************************************************************)
(* Claims about the health cards                                           *)
(***************************************************************************)
\* the text colour class of a dot colour
TextClass(dotColor) == "text-" \o dotColor \o "-400"

\* C25: the CLOB WebSocket card is yellow iff its status is Idle, green iff it
\* is Connected and red iff it is Disconnected or Stale; HealthCard is yellow
\* when warning holds, else green when ok, else red, and the dot's colour and
\* the status text's colour agree on every card.
C25_WarningBeforeOk ==
    healthView.rendered =>
       LET props == healthView.clob
           card == healthView.clobCard
       IN  /\ card.dotColor = "yellow" <=> props.status = "Idle"
           /\ card.dotColor = "green" <=> props.status = "Connected"
           /\ card.dotColor = "red" <=> props.status \in {"Disconnected", "Stale"}
           /\ card.dotColor =
                 (IF props.warning THEN "yellow" ELSE IF props.ok THEN "green" ELSE "red")
           /\ card.textColor = TextClass(card.dotColor)
           /\ healthView.rtdsCard.textColor = TextClass(healthView.rtdsCard.dotColor)
           /\ healthView.rtdsCard.dotColor = (IF healthView.rtds.ok THEN "green" ELSE "red")

\* C25 witness: an Idle card, whose ok is true, is shown in yellow
C25_Witness ==
    /\ healthView.rendered
    /\ healthView.clob.status = "Idle"
    /\ healthView.clob.ok
    /\ healthView.clobCard.dotColor = "yellow"

\* C26: the RTDS WebSocket status is "Live" iff rtds_connected and not
\* rtds_stale, "STALE" iff rtds_connected and rtds_stale, "Disconnected" iff not
\* rtds_connected whatever rtds_stale is; the card is ok and green iff the
\* status is "Live".
C26_RtdsStatus ==
    healthView.rendered =>
       LET connected == healthState.rtds_connected
           stale == healthState.rtds_stale
           status == healthView.rtds.status
       IN  /\ status \in {"Live", "STALE", "Disconnected"}
           /\ status = "Live" <=> (connected /\ ~stale)
           /\ status = "STALE" <=> (connected /\ stale)
           /\ status = "Disconnected" <=> ~connected
           /\ healthView.rtds.ok <=> status = "Live"
           /\ healthView.rtdsCard.dotColor = "green" <=> status = "Live"
           /\ healthView.rtdsCard.status = status

\* C26 witness: a disconnected feed that is flagged stale shows "Disconnected"
C26_Witness ==
    /\ healthView.rendered
    /\ ~healthState.rtds_connected
    /\ healthState.rtds_stale
    /\ healthView.rtdsCard.status = "Disconnected"
    /\ healthView.rtdsCard.dotColor = "red"

\* C29: with the CLOB WebSocket connected, a market active and
\* clob_ws_seconds_since_update missing (null), getClobWsStatus does not report
\* the socket as live: the status is not "Connected" and the detail is not a
\* literal duration "<n>s ago".
C29_MissingAgeNotLive ==
    (/\ healthView.rendered
     /\ healthState.clob_ws_connected
     /\ ~healthState.current_market.isNull
     /\ healthState.clob_ws_seconds_since_update = JsNull)
       => /\ healthView.clob.status # "Connected"
          /\ ~IsAgoForm(healthView.clob.detail)

(***************************************************************************)
(* Claims about Dashboard's render body                                    *)
(***************************************************************************)
\* a = b as numbers, for two finite fractions
SameNumber(a, b) == a.kind = "num" /\ b.kind = "num" /\ a.num * b.den = b.num * a.den

\* C27: windowPct is always within [0, 1]: 0 without a current market, else
\* seconds_elapsed / 300 clamped to [0, 1]; negative elapsed times give 0 and
\* elapsed times of 300 s and more give 1.
C27_WindowPctInUnitInterval ==
    dashView.rendered =>
       LET pct == dashView.windowPct
           mkt == dashState.current_market
           secs == mkt.seconds_elapsed
       IN  /\ pct.kind = "num"
           /\ pct.den > 0
           /\ 0 <= pct.num
           /\ pct.num <= pct.den
           /\ mkt.isNull => pct.num = 0
           /\ ~mkt.isNull =>
                 CASE secs.kind = "ninf" -> pct.num = 0
                   [] secs.kind = "inf" -> pct.num = pct.den
                   [] secs.tenths < 0 -> pct.num = 0
                   [] secs.tenths >= 10 * WINDOW_SECS -> pct.num = pct.den
                   [] OTHER -> SameNumber(pct, Ratio(secs.tenths, 10 * WINDOW_SECS))

\* C27 witness: a market with a negative seconds_elapsed has been rendered at 0
C27_Witness ==
    /\ dashView.rendered
    /\ ~dashState.current_market.isNull
    /\ dashState.current_market.seconds_elapsed.kind = "num"
    /\ dashState.current_market.seconds_elapsed.tenths < 0
    /\ dashView.windowPct.num = 0

\* the snapshot's deferred resolutions
DeferredList ==
    IF dashState.deferred_resolutions.present THEN dashState.deferred_resolutions.list
    ELSE <<>>

\* the account of mode is in the snapshot and mode is a MODE_CONFIG key
HasColumn(mode) ==
    mode \in Modes /\ dashState.accounts.present /\ mode \in dashState.accounts.keys

RECURSIVE SumOfCounts(_, _)
SumOfCounts(columns, n) ==
    IF n = 0 THEN 0 ELSE columns[n].count + SumOfCounts(columns, n - 1)

\* C28: each deferred resolution is in the "Waiting" list of exactly the column
\* whose account key equals its mode, and in none when that account is absent
\* or the mode is not a MODE_CONFIG key; the "Waiting (n)" counts sum to the
\* number of deferred resolutions whose mode has a displayed column.
C28_DeferredInOwnColumn ==
    dashView.rendered =>
       LET columns == dashView.columns
           Holders(d) ==
              { c \in 1..Len(columns) :
                   /\ columns[c].mounted
                   /\ columns[c].waiting
                   /\ \E k \in 1..Len(columns[c].deferred) : columns[c].deferred[k] = d }
       IN  /\ \A i \in 1..Len(DeferredList) :
                LET d == DeferredList[i]
                IN  IF HasColumn(d.mode)
                    THEN Holders(d) = { c \in 1..Len(columns) : columns[c].mode = d.mode }
                            /\ Cardinality(Holders(d)) = 1
                    ELSE Holders(d) = {}
           /\ \A c \in 1..Len(columns) :
                 /\ columns[c].count = Len(columns[c].deferred)
                 /\ columns[c].waiting <=> columns[c].count > 0
           /\ SumOfCounts(columns, Len(columns))
                 = Cardinality({ i \in 1..Len(DeferredList) : HasColumn(DeferredList[i].mode) })

\* C28 witness: the snapshot holds a deferred resolution of a displayed column,
\* one of a MODE_CONFIG mode whose account is absent and one of a mode that is
\* an account key but no MODE_CONFIG key, while two columns are displayed
C28_Witness ==
    /\ dashView.rendered
    /\ \E i, j, k \in 1..Len(DeferredList) :
          /\ HasColumn(DeferredList[i].mode)
          /\ DeferredList[j].mode \in Modes /\ ~HasColumn(DeferredList[j].mode)
          /\ DeferredList[k].mode = OtherMode /\ OtherMode \in dashState.accounts.keys
    /\ Cardinality({ c \in 1..Len(dashView.columns) : dashView.columns[c].mounted }) = 2
    /\ SumOfCounts(dashView.columns, Len(dashView.columns)) = 1

(***************************************************************************)
(* Claims about sendCommand                                                *)
(***************************************************************************)
\* C30: sendCommand is fire-and-forget: sending a command and its outcome (a
\* success, a non-OK status, a rejection) change neither the held snapshot, nor
\* error, nor lastFetch, and neither stop nor restart the polling interval.
C30_CommandLeavesPolling ==
    [][(cmdSent' # cmdSent \/ cmdPending' # cmdPending \/ cmdLast' # cmdLast)
          => /\ state' = state
             /\ error' = error
             /\ lastFetch' = lastFetch
             /\ pstatus' = pstatus
             /\ elapsed' = elapsed
             /\ inflight' = inflight
             /\ issued' = issued]_vars

\* C30 witness: a command has failed while the page holds a snapshot and no
\* error, and the poller has issued a fetch after its first
C30_Witness ==
    /\ cmdLast \in {"not_ok", "rejected"}
    /\ ~state.isNull
    /\ error = Null
    /\ lastFetch > 0
    /\ pstatus = "mounted"
    /\ issued > 1

====
